---- MODULE Spec2Model ----
(***************************************************************************)
(* TaskEscrowERC20 (smart-contract/contracts/TaskEscrowERC20.sol) together *)
(* with the assets it custodies: a plain ERC20 (MockERC20), the 5% fee     *)
(* asset (MockFeeToken.sol) and an untrusted asset whose transfer code may *)
(* fail, deliver any quantity, or call back into the escrow before it      *)
(* returns.  A call with a plain or fee asset runs to completion in one    *)
(* step.  A call that hands control to the untrusted asset pushes a frame  *)
(* on `stack`; the asset then re-enters the escrow, returns or fails, and  *)
(* a failure restores the state the frame was entered in (EVM revert).     *)
(***************************************************************************)
EXTENDS Integers, Sequences, FiniteSets, Bags, TLC

\* ------------------------------------------------------------------ bounds
MaxTasks == 2
MaxDepth == 2
MaxRecoveries == 1

\* -------------------------------------------------------------- identities
OWNER == "owner"
CLIENT == "client"
AGENT == "agent"
EVIL == "evil"
ZERO == "zero"
ESCROW == "escrow"
STRANGER == "stranger"
STD == "std"
FEE == "fee"

Tokens == {STD, FEE, EVIL}
Holders == {ESCROW, OWNER, CLIENT, AGENT, EVIL, STRANGER}
Senders == {OWNER, CLIENT, AGENT, EVIL}
TaskIds == 0 .. (MaxTasks - 1)
CallIds == 0 .. MaxTasks
\* The signers of the SDK instances: one MyceliumSDK object per signer.
SdkInstances == {CLIENT, STRANGER, AGENT}

\* inputs of createTask: every combination is tried, and fails or succeeds as
\* the code decides; the creations that succeed are drawn from Creations.
Clients == {CLIENT, EVIL}
AgentArgs == {AGENT, CLIENT, EVIL, ZERO}
TokenArgs == {STD, FEE, EVIL, ZERO}
Amounts == {0, 40, 100}
Metadata == {"", "m1", "m2"}
Creations ==
    { <<CLIENT, AGENT, STD, 100, "m1">>,
      <<CLIENT, AGENT, FEE, 100, "m2">>,
      <<CLIENT, EVIL, EVIL, 100, "m1">>,
      <<EVIL, AGENT, EVIL, 100, "m2">> }
HonestCreations ==
    { <<CLIENT, AGENT, STD, 100, "m1">>,
      <<CLIENT, AGENT, FEE, 100, "m2">>,
      <<CLIENT, AGENT, FEE, 40, "m1">> }
\* inputs of emergencyRecoverToken and of a direct transfer to the escrow
RecoverTokens == {STD, FEE, ZERO}
RecoverAmounts == {50}
DonationAmount == 50

FEE_PERCENTAGE == 5
InitialSupply == 10000
ClientFunds == 1000
StrangerFunds == 50

VARIABLES nextTaskId, tasks, paused, balances, allowances, events, outbound,
          stack, donated, recoveries, _destroyed, retry

vars == <<nextTaskId, tasks, paused, balances, allowances, events, outbound,
          stack, donated, recoveries, _destroyed, retry>>

\* A retryWithBackoff that has not been called: its parameters and locals
\* (attempt, lastError), where it stands (pc), what it returned or threw
\* (result), and a record of what happened: the number of calls of fn made,
\* the errors fn threw, and the delays waited.
RetryIdle ==
    [pc |-> "idle", maxAttempts |-> 0, baseDelay |-> 0, attempt |-> 0,
     lastError |-> "undefined", result |-> "undefined", calls |-> 0,
     failures |-> <<>>, waits |-> <<>>]

\* The value of an unwritten slot of the `tasks` mapping.
EmptyTask ==
    [id |-> 0, client |-> ZERO, agent |-> ZERO, token |-> ZERO, amount |-> 0,
     status |-> "Created", metadataHash |-> ""]

\* ----------------------------------------------------------------- assets
\* Faulty variant: the fee asset keeps no fee.
TokenFeeNone(token, amount) == 0

\* MockFeeToken keeps 5% of every transfer; the plain ERC20 keeps nothing.
TokenFee(token, amount) ==
    IF token = FEE THEN (amount * FEE_PERCENTAGE) \div 100 ELSE 0

\* transfer(to, amount) sent by `from`: the sender is debited amount (the part
\* delivered plus the burnt fee), the recipient gets amount - fee.
transferOk(bals, token, from, amount) == bals[token][from] >= amount

transfer(bals, token, from, to, amount) ==
    LET fee == TokenFee(token, amount)
        debited == [bals EXCEPT ![token][from] = @ - amount]
    IN [debited EXCEPT ![token][to] = @ + (amount - fee)]

\* transferFrom(from, escrow, amount) called by the escrow.
transferFromError(token, from, amount) ==
    IF allowances[token][from] < amount THEN "ERC20InsufficientAllowance"
    ELSE IF balances[token][from] < amount THEN "ERC20InsufficientBalance"
    ELSE ""

\* ---------------------------------------------------------------- events
TaskCreated(taskId, client, agent, token, requestedAmount, actualAmount, metadataHash) ==
    [type |-> "TaskCreated", taskId |-> taskId, client |-> client, agent |-> agent,
     token |-> token, requestedAmount |-> requestedAmount,
     actualAmount |-> actualAmount, metadataHash |-> metadataHash]

PaymentApproved(taskId) == [type |-> "PaymentApproved", taskId |-> taskId]

PaymentClaimed(taskId, amount) ==
    [type |-> "PaymentClaimed", taskId |-> taskId, amount |-> amount]

TaskCancelled(taskId) == [type |-> "TaskCancelled", taskId |-> taskId]

\* Faulty variant: the event is not recorded.
emitNothing(e) == events

emit(e) == events (+) SetToBag({e})

\* ------------------------------------------------------------- call frames
\* The storage and ledger state a failing call is rolled back to.
World ==
    [nextTaskId |-> nextTaskId, tasks |-> tasks, paused |-> paused,
     balances |-> balances, allowances |-> allowances, events |-> events,
     outbound |-> outbound]

Frame(fn, sender, agent, amount, meta, taskId, balanceBefore) ==
    [fn |-> fn, sender |-> sender, agent |-> agent, amount |-> amount,
     meta |-> meta, taskId |-> taskId, balanceBefore |-> balanceBefore,
     snap |-> World]

\* An externally owned account calls only between transactions; inside a
\* transfer of the untrusted asset the only caller is that asset.
CanCall(sender) == stack = <<>> \/ sender = EVIL

PendingCreates ==
    Cardinality({i \in 1 .. Len(stack) : stack[i].fn = "createTask"})

Init ==
    /\ nextTaskId = 0
    /\ tasks = [i \in TaskIds |-> EmptyTask]
    /\ paused = FALSE
    /\ balances = [t \in Tokens |-> [h \in Holders |->
                     IF t = EVIL THEN 0
                     ELSE IF h = CLIENT THEN ClientFunds
                     ELSE IF h = STRANGER THEN StrangerFunds
                     ELSE IF h = OWNER THEN InitialSupply - ClientFunds - StrangerFunds
                     ELSE 0]]
    /\ allowances = [t \in Tokens |-> [h \in Holders |->
                     IF t # EVIL /\ h = CLIENT THEN ClientFunds ELSE 0]]
    /\ events = EmptyBag
    /\ outbound = [i \in TaskIds |-> 0]
    /\ stack = <<>>
    /\ donated = [t \in Tokens |-> 0]
    /\ recoveries = 0
    /\ _destroyed = [this \in SdkInstances |-> FALSE]
    /\ retry = RetryIdle

\* ------------------------------------------------------------- modifiers
\* Faulty variant: the modifier lets every call through.
neverPaused == TRUE

\* Pausable.whenNotPaused
whenNotPaused == ~paused

\* Faulty variant: the modifier admits every caller.
onlyOwnerAnyone(sender) == TRUE

\* Ownable.onlyOwner
onlyOwner(sender) == sender = OWNER

\* --------------------------------------------------------------- createTask
\* Faulty variant: createTask without its metadata check.
createTaskErrorAnyMetadata(sender, _agent, _tokenContract, _amount, _metadataHash) ==
    IF ~whenNotPaused THEN "EnforcedPause"
    ELSE IF ~(_amount > 0) THEN "TaskEscrow: Amount must be greater than zero"
    ELSE IF ~(_agent # ZERO) THEN "TaskEscrow: Agent address cannot be zero"
    ELSE IF ~(_tokenContract # ZERO)
        THEN "TaskEscrow: Token contract address cannot be zero"
    ELSE IF ~(_agent # sender) THEN "TaskEscrow: Agent cannot be the same as client"
    ELSE ""

\* Faulty variant: createTask without require(_agent != msg.sender).
createTaskErrorSelfAgent(sender, _agent, _tokenContract, _amount, _metadataHash) ==
    IF ~whenNotPaused THEN "EnforcedPause"
    ELSE IF ~(_amount > 0) THEN "TaskEscrow: Amount must be greater than zero"
    ELSE IF ~(_agent # ZERO) THEN "TaskEscrow: Agent address cannot be zero"
    ELSE IF ~(_tokenContract # ZERO)
        THEN "TaskEscrow: Token contract address cannot be zero"
    ELSE IF ~(_metadataHash # "") THEN "TaskEscrow: Metadata hash cannot be empty"
    ELSE ""

\* The require chain of createTask, in source order; "" when all pass.
createTaskError(sender, _agent, _tokenContract, _amount, _metadataHash) ==
    IF ~whenNotPaused THEN "EnforcedPause"
    ELSE IF ~(_amount > 0) THEN "TaskEscrow: Amount must be greater than zero"
    ELSE IF ~(_agent # ZERO) THEN "TaskEscrow: Agent address cannot be zero"
    ELSE IF ~(_tokenContract # ZERO)
        THEN "TaskEscrow: Token contract address cannot be zero"
    ELSE IF ~(_metadataHash # "") THEN "TaskEscrow: Metadata hash cannot be empty"
    ELSE IF ~(_agent # sender) THEN "TaskEscrow: Agent cannot be the same as client"
    ELSE ""

\* The number of values of the unsigned integer type of amounts and balances
\* (uint256, narrowed here to 16 bits: every quantity of the model is below it).
UintModulus == 65536

\* Faulty variant: the requested amount is stored, not what was received.
storedRequested(_amount, balanceBefore, balanceAfter) == _amount

\* uint256 actualAmount = balanceAfter - balanceBefore, and the amount stored:
\* an unsigned machine integer.
storedAmount(_amount, balanceBefore, balanceAfter) ==
    (balanceAfter - balanceBefore) % UintModulus

\* Faulty variant: the subtraction is unchecked and wraps around.
receivedErrorUnchecked(balanceBefore, balanceAfter) ==
    IF ~((balanceAfter - balanceBefore) % UintModulus > 0)
        THEN "TaskEscrow: No tokens received (possible fee-on-transfer issue)"
    ELSE ""

\* Faulty variant: createTask without require(actualAmount > 0).
receivedErrorZeroAccepted(balanceBefore, balanceAfter) ==
    IF balanceAfter < balanceBefore THEN "Panic(0x11)" ELSE ""

\* The checked subtraction and require(actualAmount > 0).
receivedError(balanceBefore, balanceAfter) ==
    IF balanceAfter < balanceBefore THEN "Panic(0x11)"
    ELSE IF ~(balanceAfter - balanceBefore > 0)
        THEN "TaskEscrow: No tokens received (possible fee-on-transfer issue)"
    ELSE ""

\* The id the new task is stored under, read after the pull.
newTaskId == nextTaskId

\* Faulty variant: the counter is not incremented.
keepTaskId(taskId) == taskId

\* The counter after a creation.
bumpTaskId(taskId) == taskId + 1

\* Faulty variant: the id is read before the pull (the count the call was
\* entered with), not after it.
createTaskStoreIdBeforePull(sender, _agent, _tokenContract, _amount, _metadataHash, balanceBefore, bals) ==
    LET balanceAfter == bals[_tokenContract][ESCROW]
        actualAmount == storedAmount(_amount, balanceBefore, balanceAfter)
        taskId == IF _tokenContract = EVIL THEN Head(stack).snap.nextTaskId
                  ELSE nextTaskId
    IN /\ tasks' = [tasks EXCEPT ![taskId] =
                      [id |-> taskId, client |-> sender, agent |-> _agent,
                       token |-> _tokenContract, amount |-> actualAmount,
                       status |-> "Created", metadataHash |-> _metadataHash]]
       /\ nextTaskId' = bumpTaskId(nextTaskId)
       /\ events' = emit(TaskCreated(taskId, sender, _agent, _tokenContract,
                                     _amount, actualAmount, _metadataHash))
       /\ balances' = bals

\* The part of createTask after the pull returned: bals are the balances the
\* pull left.
createTaskStore(sender, _agent, _tokenContract, _amount, _metadataHash, balanceBefore, bals) ==
    LET balanceAfter == bals[_tokenContract][ESCROW]
        actualAmount == storedAmount(_amount, balanceBefore, balanceAfter)
        taskId == newTaskId
    IN /\ tasks' = [tasks EXCEPT ![taskId] =
                      [id |-> taskId, client |-> sender, agent |-> _agent,
                       token |-> _tokenContract, amount |-> actualAmount,
                       status |-> "Created", metadataHash |-> _metadataHash]]
       /\ nextTaskId' = bumpTaskId(nextTaskId)
       /\ events' = emit(TaskCreated(taskId, sender, _agent, _tokenContract,
                                     _amount, actualAmount, _metadataHash))
       /\ balances' = bals

\* The failure of a whole createTask call on a plain or fee asset ("" when it
\* succeeds); with the untrusted asset, the failure before the pull.
createTaskResult(sender, _agent, _tokenContract, _amount, _metadataHash) ==
    LET e == createTaskError(sender, _agent, _tokenContract, _amount, _metadataHash)
    IN IF e # "" THEN e
       ELSE IF _tokenContract = EVIL THEN ""
       ELSE IF transferFromError(_tokenContract, sender, _amount) # ""
           THEN transferFromError(_tokenContract, sender, _amount)
       ELSE receivedError(balances[_tokenContract][ESCROW],
                transfer(balances, _tokenContract, sender, ESCROW, _amount)
                    [_tokenContract][ESCROW])

createTask(sender, _agent, _tokenContract, _amount, _metadataHash) ==
    /\ CanCall(sender)
    /\ nextTaskId + PendingCreates < MaxTasks
    /\ createTaskResult(sender, _agent, _tokenContract, _amount, _metadataHash) = ""
    /\ LET balanceBefore == balances[_tokenContract][ESCROW]
       IN IF _tokenContract = EVIL
          THEN /\ Len(stack) < MaxDepth
               /\ stack' = <<Frame("createTask", sender, _agent, _amount,
                                   _metadataHash, 0, balanceBefore)>> \o stack
               /\ UNCHANGED <<nextTaskId, tasks, paused, balances, allowances,
                              events, outbound, donated, recoveries,
                              _destroyed, retry>>
          ELSE /\ createTaskStore(sender, _agent, _tokenContract, _amount,
                       _metadataHash, balanceBefore,
                       transfer(balances, _tokenContract, sender, ESCROW, _amount))
               /\ allowances' = [allowances EXCEPT ![_tokenContract][sender] = @ - _amount]
               /\ UNCHANGED <<paused, outbound, stack, donated, recoveries,
                              _destroyed, retry>>

createTaskReverts ==
    /\ ~(\A s \in Clients, a \in AgentArgs, t \in TokenArgs, m \in Amounts, h \in Metadata :
            CanCall(s) => createTaskResult(s, a, t, m, h) = "")
    /\ UNCHANGED vars

\* ----------------------------------------------------------- approvePayment
\* Faulty variant: approvePayment looks at the status before the caller.
approvePaymentErrorStatusFirst(sender, _taskId) ==
    IF ~whenNotPaused THEN "EnforcedPause"
    ELSE IF ~(_taskId < nextTaskId) THEN "TaskEscrow: Task does not exist"
    ELSE IF ~(tasks[_taskId].status = "Created")
        THEN "TaskEscrow: Task is not in Created status"
    ELSE IF ~(sender = tasks[_taskId].client)
        THEN "TaskEscrow: Only client can approve payment"
    ELSE ""

\* Faulty variant: approvePayment without its status check.
approvePaymentErrorAnyStatus(sender, _taskId) ==
    IF ~whenNotPaused THEN "EnforcedPause"
    ELSE IF ~(_taskId < nextTaskId) THEN "TaskEscrow: Task does not exist"
    ELSE IF ~(sender = tasks[_taskId].client)
        THEN "TaskEscrow: Only client can approve payment"
    ELSE ""

approvePaymentError(sender, _taskId) ==
    IF ~whenNotPaused THEN "EnforcedPause"
    ELSE IF ~(_taskId < nextTaskId) THEN "TaskEscrow: Task does not exist"
    ELSE IF ~(sender = tasks[_taskId].client)
        THEN "TaskEscrow: Only client can approve payment"
    ELSE IF ~(tasks[_taskId].status = "Created")
        THEN "TaskEscrow: Task is not in Created status"
    ELSE ""

\* Faulty variant: approving already pays the agent of a plain or fee task.
approvePaymentPaysAgent(sender, _taskId) ==
    /\ CanCall(sender)
    /\ approvePaymentError(sender, _taskId) = ""
    /\ tasks' = [tasks EXCEPT ![_taskId].status = "Approved"]
    /\ events' = emit(PaymentApproved(_taskId))
    /\ balances' = IF tasks[_taskId].token # EVIL
                      /\ transferOk(balances, tasks[_taskId].token, ESCROW,
                                    tasks[_taskId].amount)
                   THEN transfer(balances, tasks[_taskId].token, ESCROW,
                                 tasks[_taskId].agent, tasks[_taskId].amount)
                   ELSE balances
    /\ UNCHANGED <<nextTaskId, paused, allowances, outbound, stack, donated,
                   recoveries, _destroyed, retry>>

\* Faulty variant: approving one task approves every Created task of the caller.
approvePaymentAllOfClient(sender, _taskId) ==
    /\ CanCall(sender)
    /\ approvePaymentError(sender, _taskId) = ""
    /\ tasks' = [k \in TaskIds |->
                   IF k < nextTaskId /\ tasks[k].client = sender
                      /\ tasks[k].status = "Created"
                   THEN [tasks[k] EXCEPT !.status = "Approved"]
                   ELSE tasks[k]]
    /\ events' = emit(PaymentApproved(_taskId))
    /\ UNCHANGED <<nextTaskId, paused, balances, allowances, outbound, stack,
                   donated, recoveries, _destroyed, retry>>

\* Faulty variant: approving also clears the stored amount.
approvePaymentClearsAmount(sender, _taskId) ==
    /\ CanCall(sender)
    /\ approvePaymentError(sender, _taskId) = ""
    /\ tasks' = [tasks EXCEPT ![_taskId].status = "Approved", ![_taskId].amount = 0]
    /\ events' = emit(PaymentApproved(_taskId))
    /\ UNCHANGED <<nextTaskId, paused, balances, allowances, outbound, stack,
                   donated, recoveries, _destroyed, retry>>

approvePayment(sender, _taskId) ==
    /\ CanCall(sender)
    /\ approvePaymentError(sender, _taskId) = ""
    /\ tasks' = [tasks EXCEPT ![_taskId].status = "Approved"]
    /\ events' = emit(PaymentApproved(_taskId))
    /\ UNCHANGED <<nextTaskId, paused, balances, allowances, outbound, stack,
                   donated, recoveries, _destroyed, retry>>

approvePaymentReverts ==
    /\ ~(\A s \in Senders, i \in CallIds :
            CanCall(s) => approvePaymentError(s, i) = "")
    /\ UNCHANGED vars

\* ------------------------------------------- claimPayment / cancelTaskAndRefund
\* Faulty variant: claimPayment without its status check.
claimPaymentErrorAnyStatus(sender, _taskId) ==
    IF ~whenNotPaused THEN "EnforcedPause"
    ELSE IF ~(_taskId < nextTaskId) THEN "TaskEscrow: Task does not exist"
    ELSE IF ~(sender = tasks[_taskId].agent)
        THEN "TaskEscrow: Only agent can claim payment"
    ELSE ""

\* Faulty variant: claimPayment without its caller check.
claimPaymentErrorAnyCaller(sender, _taskId) ==
    IF ~whenNotPaused THEN "EnforcedPause"
    ELSE IF ~(_taskId < nextTaskId) THEN "TaskEscrow: Task does not exist"
    ELSE IF ~(tasks[_taskId].status = "Approved")
        THEN "TaskEscrow: Payment is not approved"
    ELSE ""

claimPaymentError(sender, _taskId) ==
    IF ~whenNotPaused THEN "EnforcedPause"
    ELSE IF ~(_taskId < nextTaskId) THEN "TaskEscrow: Task does not exist"
    ELSE IF ~(sender = tasks[_taskId].agent)
        THEN "TaskEscrow: Only agent can claim payment"
    ELSE IF ~(tasks[_taskId].status = "Approved")
        THEN "TaskEscrow: Payment is not approved"
    ELSE ""

\* Faulty variant: cancelTaskAndRefund without its caller check.
cancelTaskAndRefundErrorAnyCaller(sender, _taskId) ==
    IF ~whenNotPaused THEN "EnforcedPause"
    ELSE IF ~(_taskId < nextTaskId) THEN "TaskEscrow: Task does not exist"
    ELSE IF ~(tasks[_taskId].status = "Created")
        THEN "TaskEscrow: Can only cancel tasks in Created status"
    ELSE ""

\* Faulty variant: cancelTaskAndRefund without its status check.
cancelTaskAndRefundErrorAnyStatus(sender, _taskId) ==
    IF ~whenNotPaused THEN "EnforcedPause"
    ELSE IF ~(_taskId < nextTaskId) THEN "TaskEscrow: Task does not exist"
    ELSE IF ~(sender = tasks[_taskId].client)
        THEN "TaskEscrow: Only client can cancel task"
    ELSE ""

cancelTaskAndRefundError(sender, _taskId) ==
    IF ~whenNotPaused THEN "EnforcedPause"
    ELSE IF ~(_taskId < nextTaskId) THEN "TaskEscrow: Task does not exist"
    ELSE IF ~(sender = tasks[_taskId].client)
        THEN "TaskEscrow: Only client can cancel task"
    ELSE IF ~(tasks[_taskId].status = "Created")
        THEN "TaskEscrow: Can only cancel tasks in Created status"
    ELSE ""

\* Faulty variant: the status is not written before the transfer is made.
statusAfterTransfer(oldStatus, newStatus) == oldStatus

\* The status written before the outbound transfer is made.
statusBeforeTransfer(oldStatus, newStatus) == newStatus

\* SafeERC20.safeTransfer from the escrow on a plain or fee asset.
safeTransferError(token, amount) ==
    IF transferOk(balances, token, ESCROW, amount) THEN ""
    ELSE "ERC20InsufficientBalance"

\* The state changes of claimPayment / cancelTaskAndRefund up to and including
\* the call of task.token.safeTransfer(to, task.amount).
settle(fn, sender, _taskId, newStatus, event, to) ==
    LET task == tasks[_taskId]
    IN /\ tasks' = [tasks EXCEPT ![_taskId].status =
                      statusBeforeTransfer(task.status, newStatus)]
       /\ events' = emit(event)
       /\ outbound' = [outbound EXCEPT ![_taskId] = @ + 1]
       /\ IF task.token = EVIL
          THEN /\ Len(stack) < MaxDepth
               /\ stack' = <<Frame(fn, sender, to, task.amount, "", _taskId,
                                   balances[EVIL][ESCROW])>> \o stack
               /\ UNCHANGED balances
          ELSE /\ safeTransferError(task.token, task.amount) = ""
               /\ balances' = transfer(balances, task.token, ESCROW, to, task.amount)
               /\ UNCHANGED stack
       /\ UNCHANGED <<nextTaskId, paused, allowances, donated, recoveries,
                      _destroyed, retry>>

\* The failure of a whole call on a plain or fee asset ("" when it succeeds);
\* with the untrusted asset, the failure before the transfer.
claimPaymentResult(sender, _taskId) ==
    IF claimPaymentError(sender, _taskId) # "" THEN claimPaymentError(sender, _taskId)
    ELSE IF tasks[_taskId].token = EVIL THEN ""
    ELSE safeTransferError(tasks[_taskId].token, tasks[_taskId].amount)

cancelTaskAndRefundResult(sender, _taskId) ==
    IF cancelTaskAndRefundError(sender, _taskId) # ""
        THEN cancelTaskAndRefundError(sender, _taskId)
    ELSE IF tasks[_taskId].token = EVIL THEN ""
    ELSE safeTransferError(tasks[_taskId].token, tasks[_taskId].amount)

\* Faulty variant: the payment goes to the task's client.
claimPaymentPaysClient(sender, _taskId) ==
    /\ CanCall(sender)
    /\ claimPaymentResult(sender, _taskId) = ""
    /\ settle("claimPayment", sender, _taskId, "Paid",
              PaymentClaimed(_taskId, tasks[_taskId].amount), tasks[_taskId].client)

claimPayment(sender, _taskId) ==
    /\ CanCall(sender)
    /\ claimPaymentResult(sender, _taskId) = ""
    /\ settle("claimPayment", sender, _taskId, "Paid",
              PaymentClaimed(_taskId, tasks[_taskId].amount), tasks[_taskId].agent)

\* Faulty variant: the refund goes to the task's agent.
cancelTaskAndRefundPaysAgent(sender, _taskId) ==
    /\ CanCall(sender)
    /\ cancelTaskAndRefundResult(sender, _taskId) = ""
    /\ settle("cancelTaskAndRefund", sender, _taskId, "Cancelled",
              TaskCancelled(_taskId), tasks[_taskId].agent)

cancelTaskAndRefund(sender, _taskId) ==
    /\ CanCall(sender)
    /\ cancelTaskAndRefundResult(sender, _taskId) = ""
    /\ settle("cancelTaskAndRefund", sender, _taskId, "Cancelled",
              TaskCancelled(_taskId), tasks[_taskId].client)

claimPaymentReverts ==
    /\ ~(\A s \in Senders, i \in CallIds :
            CanCall(s) => claimPaymentResult(s, i) = "")
    /\ UNCHANGED vars

cancelTaskAndRefundReverts ==
    /\ ~(\A s \in Senders, i \in CallIds :
            CanCall(s) => cancelTaskAndRefundResult(s, i) = "")
    /\ UNCHANGED vars

\* ------------------------------------------------------------- queries
\* Faulty variant: the bound of the require is inclusive.
getTaskInfoErrorInclusive(_taskId) ==
    IF ~(_taskId <= nextTaskId) THEN "TaskEscrow: Task does not exist" ELSE ""

\* Faulty variant: the view carries the whenNotPaused modifier.
getTaskInfoErrorWhenNotPaused(_taskId) ==
    IF ~whenNotPaused THEN "EnforcedPause"
    ELSE IF ~(_taskId < nextTaskId) THEN "TaskEscrow: Task does not exist"
    ELSE ""

\* The require of getTaskInfo; "" when it passes.
getTaskInfoError(_taskId) ==
    IF ~(_taskId < nextTaskId) THEN "TaskEscrow: Task does not exist" ELSE ""

\* What getTaskInfo returns: nothing when it reverts, else the Task struct.
getTaskInfo(_taskId) ==
    IF getTaskInfoError(_taskId) # "" THEN {} ELSE {tasks[_taskId]}

\* Faulty variant: getTaskMetadata without its require.
getTaskMetadataErrorNone(_taskId) == ""

\* The require of getTaskMetadata; "" when it passes.
getTaskMetadataError(_taskId) ==
    IF ~(_taskId < nextTaskId) THEN "TaskEscrow: Task does not exist" ELSE ""

\* What getTaskMetadata returns: nothing when it reverts, else the hash.
getTaskMetadata(_taskId) ==
    IF getTaskMetadataError(_taskId) # "" THEN {}
    ELSE {tasks[_taskId].metadataHash}

getTaskCount == nextTaskId

\* taskExists has no require: it never reverts.
taskExistsError(_taskId) == ""

\* Faulty variant: the bound is inclusive.
taskExistsInclusive(_taskId) == _taskId <= nextTaskId

taskExists(_taskId) == _taskId < nextTaskId

\* The views are external view functions: a call of one, by any account, at
\* any time, reads the state and writes nothing.
getTaskInfoCall(_taskId) == UNCHANGED vars

getTaskMetadataCall(_taskId) == UNCHANGED vars

taskExistsCall(_taskId) == UNCHANGED vars

getTaskCountCall == UNCHANGED vars

\* ------------------------------------------------------------- what is owed
\* The sum of amount over a set of task ids.
RECURSIVE SumAmounts(_)
SumAmounts(S) ==
    IF S = {} THEN 0
    ELSE LET t == CHOOSE x \in S : TRUE
         IN tasks[t].amount + SumAmounts(S \ {t})

\* The sum of amount over the token's tasks in Created or Approved status.
ActiveSum(token) ==
    SumAmounts({t \in TaskIds : /\ t < nextTaskId
                                /\ tasks[t].token = token
                                /\ tasks[t].status \in {"Created", "Approved"}})

\* ------------------------------------------------- pause / unpause / recovery
pauseError(sender) ==
    IF ~onlyOwner(sender) THEN "OwnableUnauthorizedAccount"
    ELSE IF ~whenNotPaused THEN "EnforcedPause"
    ELSE ""

unpauseError(sender) ==
    IF ~onlyOwner(sender) THEN "OwnableUnauthorizedAccount"
    ELSE IF ~paused THEN "ExpectedPause"
    ELSE ""

pause(sender) ==
    /\ CanCall(sender)
    /\ pauseError(sender) = ""
    /\ paused' = TRUE
    /\ UNCHANGED <<nextTaskId, tasks, balances, allowances, events, outbound,
                   stack, donated, recoveries, _destroyed, retry>>

\* Faulty variant: unpause leaves the flag set.
unpauseKeepsFlag(sender) ==
    /\ CanCall(sender)
    /\ unpauseError(sender) = ""
    /\ paused' = paused
    /\ UNCHANGED <<nextTaskId, tasks, balances, allowances, events, outbound,
                   stack, donated, recoveries, _destroyed, retry>>

unpause(sender) ==
    /\ CanCall(sender)
    /\ unpauseError(sender) = ""
    /\ paused' = FALSE
    /\ UNCHANGED <<nextTaskId, tasks, balances, allowances, events, outbound,
                   stack, donated, recoveries, _destroyed, retry>>

pauseReverts ==
    /\ ~(\A s \in Senders :
            CanCall(s) => pauseError(s) = "")
    /\ UNCHANGED vars

unpauseReverts ==
    /\ ~(\A s \in Senders :
            CanCall(s) => unpauseError(s) = "")
    /\ UNCHANGED vars

\* Faulty variant: recovery of more than the escrow holds is not refused.
emergencyRecoverTokenErrorAnyAmount(sender, _token, _amount) ==
    IF ~onlyOwner(sender) THEN "OwnableUnauthorizedAccount"
    ELSE IF ~(_token # ZERO) THEN "TaskEscrow: Token address cannot be zero"
    ELSE ""

\* Faulty variant: recovery is refused while the escrow is paused.
emergencyRecoverTokenErrorWhenNotPaused(sender, _token, _amount) ==
    IF ~onlyOwner(sender) THEN "OwnableUnauthorizedAccount"
    ELSE IF ~whenNotPaused THEN "EnforcedPause"
    ELSE IF ~(_token # ZERO) THEN "TaskEscrow: Token address cannot be zero"
    ELSE IF _token = EVIL THEN ""
    ELSE safeTransferError(_token, _amount)

\* Faulty variant: recovery refuses what backs Created or Approved tasks.
emergencyRecoverTokenErrorKeepsActive(sender, _token, _amount) ==
    IF ~onlyOwner(sender) THEN "OwnableUnauthorizedAccount"
    ELSE IF ~(_token # ZERO) THEN "TaskEscrow: Token address cannot be zero"
    ELSE IF _token = EVIL THEN ""
    ELSE IF balances[_token][ESCROW] - _amount < ActiveSum(_token)
        THEN "TaskEscrow: Token involved in active tasks"
    ELSE safeTransferError(_token, _amount)

emergencyRecoverTokenError(sender, _token, _amount) ==
    IF ~onlyOwner(sender) THEN "OwnableUnauthorizedAccount"
    ELSE IF ~(_token # ZERO) THEN "TaskEscrow: Token address cannot be zero"
    ELSE IF _token = EVIL THEN ""
    ELSE safeTransferError(_token, _amount)

\* Faulty variant: an emergency recovery also pauses the escrow.
emergencyRecoverTokenPauses(sender, _token, _amount) ==
    /\ CanCall(sender)
    /\ recoveries < MaxRecoveries
    /\ emergencyRecoverTokenError(sender, _token, _amount) = ""
    /\ recoveries' = recoveries + 1
    /\ paused' = TRUE
    /\ IF _token = EVIL
       THEN /\ Len(stack) < MaxDepth
            /\ stack' = <<Frame("emergencyRecoverToken", sender, OWNER, _amount,
                                "", 0, balances[EVIL][ESCROW])>> \o stack
            /\ UNCHANGED balances
       ELSE /\ balances' = transfer(balances, _token, ESCROW, OWNER, _amount)
            /\ UNCHANGED stack
    /\ UNCHANGED <<nextTaskId, tasks, allowances, events, outbound, donated,
                   _destroyed, retry>>

emergencyRecoverToken(sender, _token, _amount) ==
    /\ CanCall(sender)
    /\ recoveries < MaxRecoveries
    /\ emergencyRecoverTokenError(sender, _token, _amount) = ""
    /\ recoveries' = recoveries + 1
    /\ IF _token = EVIL
       THEN /\ Len(stack) < MaxDepth
            /\ stack' = <<Frame("emergencyRecoverToken", sender, OWNER, _amount,
                                "", 0, balances[EVIL][ESCROW])>> \o stack
            /\ UNCHANGED balances
       ELSE /\ balances' = transfer(balances, _token, ESCROW, OWNER, _amount)
            /\ UNCHANGED stack
    /\ UNCHANGED <<nextTaskId, tasks, paused, allowances, events, outbound,
                   donated, _destroyed, retry>>

emergencyRecoverTokenReverts ==
    /\ ~(\A s \in Senders, t \in RecoverTokens, m \in RecoverAmounts :
            CanCall(s) => emergencyRecoverTokenError(s, t, m) = "")
    /\ UNCHANGED vars

\* A holder sends tokens to the escrow directly, outside createTask.
directTransfer(token, from, amount) ==
    /\ stack = <<>>
    /\ transferOk(balances, token, from, amount)
    /\ balances' = transfer(balances, token, from, ESCROW, amount)
    /\ donated' = [donated EXCEPT ![token] = @ + (amount - TokenFee(token, amount))]
    /\ UNCHANGED <<nextTaskId, tasks, paused, allowances, events, outbound,
                   stack, recoveries, _destroyed, retry>>

\* ------------------------------------------------- the untrusted asset
EvilDeltas == {0 - m : m \in Amounts} \cup Amounts

\* What the escrow's balance of the untrusted asset changes by when a pull of
\* `amount` returns success: nothing, the amount, or a decrease.
EvilPullDeltas(amount) ==
    {0, amount} \cup (IF balances[EVIL][ESCROW] >= amount THEN {0 - amount} ELSE {})

\* What a push of `amount` that returns success debits the escrow.
EvilPushDebit(amount) ==
    IF balances[EVIL][ESCROW] >= amount THEN amount ELSE 0

\* Faulty variant: the result of the token call is not checked, and the call goes on.
AfterIgnoredFailure(frame) == World

\* SafeERC20 reverts when the token call fails or returns false, and the EVM
\* then restores the state the failing call was entered in.
AfterFailedCall(frame) == frame.snap

Restore(w) ==
    /\ nextTaskId' = w.nextTaskId
    /\ tasks' = w.tasks
    /\ paused' = w.paused
    /\ balances' = w.balances
    /\ allowances' = w.allowances
    /\ events' = w.events
    /\ outbound' = w.outbound

\* safeTransferFrom of createTask returns: createTask resumes at
\* balanceAfter and stores the task.
EvilPullReturns(d) ==
    /\ stack # <<>>
    /\ Head(stack).fn = "createTask"
    /\ d \in EvilPullDeltas(Head(stack).amount)
    /\ LET f == Head(stack)
           bals == [balances EXCEPT ![EVIL][ESCROW] = @ + d]
       IN /\ receivedError(f.balanceBefore, bals[EVIL][ESCROW]) = ""
          /\ createTaskStore(f.sender, f.agent, EVIL, f.amount, f.meta,
                             f.balanceBefore, bals)
    /\ stack' = Tail(stack)
    /\ UNCHANGED <<paused, allowances, outbound, donated, recoveries,
                   _destroyed, retry>>

\* safeTransferFrom returns, and createTask fails on what it received.
EvilPullRejected(d) ==
    /\ stack # <<>>
    /\ Head(stack).fn = "createTask"
    /\ d \in EvilPullDeltas(Head(stack).amount)
    /\ receivedError(Head(stack).balanceBefore, balances[EVIL][ESCROW] + d) # ""
    /\ Restore(AfterFailedCall(Head(stack)))
    /\ stack' = Tail(stack)
    /\ UNCHANGED <<donated, recoveries, _destroyed, retry>>

\* safeTransfer of claimPayment, cancelTaskAndRefund or emergencyRecoverToken
\* returns.
EvilPushReturns ==
    /\ stack # <<>>
    /\ Head(stack).fn # "createTask"
    /\ balances' = [balances EXCEPT ![EVIL][ESCROW] = @ - EvilPushDebit(Head(stack).amount)]
    /\ stack' = Tail(stack)
    /\ UNCHANGED <<nextTaskId, tasks, paused, allowances, events, outbound,
                   donated, recoveries, _destroyed, retry>>

\* The token call fails.
EvilFails ==
    /\ stack # <<>>
    /\ Restore(AfterFailedCall(Head(stack)))
    /\ stack' = Tail(stack)
    /\ UNCHANGED <<donated, recoveries, _destroyed, retry>>

\* ------------------------------------------------------------------ the SDK
\* tokenContract.decimals() of the tokens the SDK is used with.
TokenDecimals == 1

RECURSIVE Pow10(_)
Pow10(n) == IF n = 0 THEN 1 ELSE 10 * Pow10(n - 1)

\* ethers.parseUnits(amount, decimals): token units to base units.
parseAmount(amount, decimals) == amount * Pow10(decimals)

\* The accounts an SDK instance signs for, and the arguments it is given
\* (amounts in token units).
SdkSigners == {CLIENT, STRANGER}
SdkTaskIds == CallIds \cup {0 - 1}
SdkAgents == {AGENT, ZERO}
SdkTokens == {STD, FEE, ZERO}
SdkAmounts == {0, 4}
SdkMetadata == {"", "m1"}

AllowanceError == "ContractError: Insufficient token allowance"

\* What MyceliumSDK.createTask throws, in source order; "" when it returns a
\* result.  options.autoApprove is not read anywhere in the function.
DestroyedError ==
    "MyceliumError: SDK has been destroyed. Create a new instance to continue."

\* _ensureNotDestroyed() of the instance `this`: what it throws, "" when it
\* returns.
_ensureNotDestroyed(this) == IF _destroyed[this] THEN DestroyedError ELSE ""

sdkCreateTaskError(signer, agentAddress, tokenAddress, amount, metadata, autoApprove) ==
    LET parsedAmount == parseAmount(amount, TokenDecimals)
    IN IF _ensureNotDestroyed(signer) # "" THEN _ensureNotDestroyed(signer)
       ELSE IF agentAddress = ZERO
           THEN "ValidationError: agentAddress cannot be zero address"
       ELSE IF tokenAddress = ZERO
           THEN "ValidationError: tokenAddress cannot be zero address"
       ELSE IF amount <= 0 THEN "ValidationError: amount must be greater than zero"
       ELSE IF metadata = ""
           THEN "ValidationError: Metadata hash is required and must be a string"
       ELSE IF balances[tokenAddress][signer] < parsedAmount
           THEN "InsufficientFundsError"
       ELSE IF allowances[tokenAddress][signer] < parsedAmount THEN AllowanceError
       ELSE IF createTaskResult(signer, agentAddress, tokenAddress, parsedAmount,
                                metadata) # ""
           THEN "ContractError: Failed to create task"
       ELSE ""

\* The approvalTransaction of the result createTask returns: the result has
\* taskId, transactionHash, blockNumber, gasUsed, effectiveGasPrice and
\* metadata, and no approvalTransaction.
sdkApprovalTransaction(signer, tokenAddress, amount, autoApprove) == {}

\* MyceliumSDK.createTask returning a result: the one transaction it submits
\* is the escrow's createTask.
sdkCreateTask(signer, agentAddress, tokenAddress, amount, metadata, autoApprove) ==
    /\ sdkCreateTaskError(signer, agentAddress, tokenAddress, amount, metadata,
                          autoApprove) = ""
    /\ createTask(signer, agentAddress, tokenAddress,
                  parseAmount(amount, TokenDecimals), metadata)

sdkCreateTaskThrows ==
    /\ ~(\A s \in SdkSigners, a \in SdkAgents, t \in SdkTokens, m \in SdkAmounts,
            h \in SdkMetadata, o \in BOOLEAN :
            sdkCreateTaskError(s, a, t, m, h, o) = "")
    /\ UNCHANGED vars

\* What MyceliumSDK.approveToken throws; "" when it returns.
approveTokenError(signer, tokenAddress, amount) ==
    IF tokenAddress = ZERO THEN "ValidationError: tokenAddress cannot be zero address"
    ELSE IF amount <= 0 THEN "ValidationError: amount must be greater than zero"
    ELSE ""

\* MyceliumSDK.approveToken: token.approve(escrow, parsedAmount) by the signer.
approveToken(signer, tokenAddress, amount) ==
    /\ stack = <<>>
    /\ approveTokenError(signer, tokenAddress, amount) = ""
    /\ allowances' = [allowances EXCEPT ![tokenAddress][signer] =
                          parseAmount(amount, TokenDecimals)]
    /\ UNCHANGED <<nextTaskId, tasks, paused, balances, events, outbound, stack,
                   donated, recoveries, _destroyed, retry>>

\* approveToken throws: on its validation, or in a call through the provider
\* of an instance whose destroy() has destroyed the provider.
approveTokenThrows ==
    /\ \/ ~(\A s \in SdkSigners, t \in SdkTokens, m \in SdkAmounts :
               approveTokenError(s, t, m) = "")
       \/ \E s \in SdkSigners : _destroyed[s]
    /\ UNCHANGED vars

\* validateTaskId: what it throws, "" when it returns.
validateTaskId(taskId) ==
    IF taskId < 0 THEN "ValidationError: Task ID must be non-negative" ELSE ""

\* What MyceliumSDK.getTask throws; "" when it returns the task.
sdkGetTaskError(this, taskId) ==
    IF _ensureNotDestroyed(this) # "" THEN _ensureNotDestroyed(this)
    ELSE IF validateTaskId(taskId) # "" THEN validateTaskId(taskId)
    ELSE IF getTaskInfoError(taskId) = "TaskEscrow: Task does not exist"
        THEN "ValidationError: Task does not exist"
    ELSE IF getTaskInfoError(taskId) # ""
        THEN "ContractError: Failed to get task info"
    ELSE ""

\* What MyceliumSDK.getTaskCount throws.
sdkGetTaskCountError(this) == _ensureNotDestroyed(this)

\* What MyceliumSDK.getTaskMetadata throws before it calls the contract, and
\* what it makes of the contract's failure; "" when it returns the metadata.
sdkGetTaskMetadataError(this, taskId) ==
    IF validateTaskId(taskId) # "" THEN validateTaskId(taskId)
    ELSE IF getTaskMetadataError(taskId) = "TaskEscrow: Task does not exist"
        THEN "ValidationError: Task does not exist"
    ELSE IF getTaskMetadataError(taskId) # ""
        THEN "ContractError: Failed to get task metadata"
    ELSE ""

\* What MyceliumSDK.taskExists throws before it calls the contract.
sdkTaskExistsError(this, taskId) ==
    IF validateTaskId(taskId) # "" THEN validateTaskId(taskId)
    ELSE IF taskExistsError(taskId) # ""
        THEN "ContractError: Failed to check task existence"
    ELSE ""

\* What MyceliumSDK.approvePayment throws: _ensureNotDestroyed, then
\* _executeTaskOperation with its validation of the task just read.
sdkApprovePaymentError(this, taskId) ==
    IF _ensureNotDestroyed(this) # "" THEN _ensureNotDestroyed(this)
    ELSE IF validateTaskId(taskId) # "" THEN validateTaskId(taskId)
    ELSE IF sdkGetTaskError(this, taskId) # "" THEN sdkGetTaskError(this, taskId)
    ELSE IF tasks[taskId].client # this
        THEN "ValidationError: Only the task client can approve payment"
    ELSE IF tasks[taskId].status # "Created"
        THEN "ValidationError: Task status must be CREATED"
    ELSE IF approvePaymentError(this, taskId) # ""
        THEN "ContractError: Failed to approve payment"
    ELSE ""

\* What MyceliumSDK.claimPayment throws.
sdkClaimPaymentError(this, taskId) ==
    IF _ensureNotDestroyed(this) # "" THEN _ensureNotDestroyed(this)
    ELSE IF sdkGetTaskError(this, taskId) # "" THEN sdkGetTaskError(this, taskId)
    ELSE IF tasks[taskId].agent # this
        THEN "ValidationError: Only the task agent can claim payment"
    ELSE IF tasks[taskId].status # "Approved"
        THEN "ValidationError: Task status must be APPROVED"
    ELSE IF claimPaymentResult(this, taskId) # ""
        THEN "ContractError: Failed to claim payment"
    ELSE ""

\* What MyceliumSDK.cancelTask throws.
sdkCancelTaskError(this, taskId) ==
    IF _ensureNotDestroyed(this) # "" THEN _ensureNotDestroyed(this)
    ELSE IF sdkGetTaskError(this, taskId) # "" THEN sdkGetTaskError(this, taskId)
    ELSE IF tasks[taskId].client # this
        THEN "ValidationError: Only the task client can cancel the task"
    ELSE IF tasks[taskId].status # "Created"
        THEN "ValidationError: Task status must be CREATED"
    ELSE IF cancelTaskAndRefundResult(this, taskId) # ""
        THEN "ContractError: Failed to cancel task"
    ELSE ""

\* The three task operations returning a result: each submits the escrow's
\* transaction of the same purpose.
sdkApprovePayment(this, taskId) ==
    /\ sdkApprovePaymentError(this, taskId) = ""
    /\ approvePayment(this, taskId)

sdkClaimPayment(this, taskId) ==
    /\ sdkClaimPaymentError(this, taskId) = ""
    /\ claimPayment(this, taskId)

sdkCancelTask(this, taskId) ==
    /\ sdkCancelTaskError(this, taskId) = ""
    /\ cancelTaskAndRefund(this, taskId)

sdkTaskOperationThrows ==
    /\ ~(\A this \in SdkInstances, i \in SdkTaskIds :
            /\ sdkApprovePaymentError(this, i) = ""
            /\ sdkClaimPaymentError(this, i) = ""
            /\ sdkCancelTaskError(this, i) = "")
    /\ UNCHANGED vars

\* The queries returning a result: contract reads, which change nothing.
sdkGetTask(this, taskId) ==
    /\ sdkGetTaskError(this, taskId) = ""
    /\ UNCHANGED vars

sdkGetTaskCount(this) ==
    /\ sdkGetTaskCountError(this) = ""
    /\ UNCHANGED vars

sdkGetTaskMetadata(this, taskId) ==
    /\ sdkGetTaskMetadataError(this, taskId) = ""
    /\ UNCHANGED vars

sdkTaskExists(this, taskId) ==
    /\ sdkTaskExistsError(this, taskId) = ""
    /\ UNCHANGED vars

\* A query throws: on its own checks, or in a call through a destroyed
\* provider.
sdkQueryThrows ==
    /\ \/ ~(\A this \in SdkInstances, i \in SdkTaskIds :
               /\ sdkGetTaskError(this, i) = ""
               /\ sdkGetTaskCountError(this) = ""
               /\ sdkGetTaskMetadataError(this, i) = ""
               /\ sdkTaskExistsError(this, i) = "")
       \/ \E this \in SdkInstances : _destroyed[this]
    /\ UNCHANGED vars

\* MyceliumSDK.destroy: the instance is marked destroyed; listeners, cleanup
\* tasks and the provider are released.
destroy(this) ==
    /\ stack = <<>>
    /\ _destroyed' = [_destroyed EXCEPT ![this] = TRUE]
    /\ UNCHANGED <<nextTaskId, tasks, paused, balances, allowances, events,
                   outbound, stack, donated, recoveries, retry>>

\* ------------------------------------------------------------ specification
Next ==
    \/ \E c \in Creations : createTask(c[1], c[2], c[3], c[4], c[5])
    \/ createTaskReverts
    \/ \E s \in Senders, i \in CallIds : approvePayment(s, i)
    \/ approvePaymentReverts
    \/ \E s \in Senders, i \in CallIds : claimPayment(s, i)
    \/ claimPaymentReverts
    \/ \E s \in Senders, i \in CallIds : cancelTaskAndRefund(s, i)
    \/ cancelTaskAndRefundReverts
    \/ \E s \in Senders : pause(s)
    \/ pauseReverts
    \/ \E s \in Senders : unpause(s)
    \/ unpauseReverts
    \/ \E s \in Senders, t \in RecoverTokens, m \in RecoverAmounts :
           emergencyRecoverToken(s, t, m)
    \/ emergencyRecoverTokenReverts
    \/ \E d \in EvilDeltas : EvilPullReturns(d)
    \/ \E d \in EvilDeltas : EvilPullRejected(d)
    \/ EvilPushReturns
    \/ EvilFails
    \/ \E i \in CallIds : getTaskInfoCall(i)
    \/ \E i \in CallIds : getTaskMetadataCall(i)
    \/ \E i \in CallIds : taskExistsCall(i)
    \/ getTaskCountCall

Spec == Init /\ [][Next]_vars

\* The escrow with the plain and the fee asset only, tokens sent to it directly,
\* and no emergency recovery.
NextCustody ==
    \/ \E c \in HonestCreations : createTask(c[1], c[2], c[3], c[4], c[5])
    \/ createTaskReverts
    \/ \E s \in Senders, i \in CallIds : approvePayment(s, i)
    \/ approvePaymentReverts
    \/ \E s \in Senders, i \in CallIds : claimPayment(s, i)
    \/ claimPaymentReverts
    \/ \E s \in Senders, i \in CallIds : cancelTaskAndRefund(s, i)
    \/ cancelTaskAndRefundReverts
    \/ \E s \in Senders : pause(s)
    \/ pauseReverts
    \/ \E s \in Senders : unpause(s)
    \/ unpauseReverts
    \/ \E t \in {STD, FEE} : directTransfer(t, STRANGER, DonationAmount)

SpecCustody == Init /\ [][NextCustody]_vars

\* The escrow used through MyceliumSDK, one instance per signer, each of
\* which may be destroyed.
NextSdk ==
    \/ \E s \in SdkSigners, a \in SdkAgents, t \in SdkTokens, m \in SdkAmounts,
          h \in SdkMetadata, o \in BOOLEAN : sdkCreateTask(s, a, t, m, h, o)
    \/ sdkCreateTaskThrows
    \/ \E s \in SdkSigners, t \in SdkTokens, m \in SdkAmounts : approveToken(s, t, m)
    \/ approveTokenThrows
    \/ \E this \in SdkInstances, i \in SdkTaskIds : sdkApprovePayment(this, i)
    \/ \E this \in SdkInstances, i \in SdkTaskIds : sdkClaimPayment(this, i)
    \/ \E this \in SdkInstances, i \in SdkTaskIds : sdkCancelTask(this, i)
    \/ sdkTaskOperationThrows
    \/ \E this \in SdkInstances, i \in SdkTaskIds : sdkGetTask(this, i)
    \/ \E this \in SdkInstances : sdkGetTaskCount(this)
    \/ \E this \in SdkInstances, i \in SdkTaskIds : sdkGetTaskMetadata(this, i)
    \/ \E this \in SdkInstances, i \in SdkTaskIds : sdkTaskExists(this, i)
    \/ sdkQueryThrows
    \/ \E this \in SdkInstances : destroy(this)

SpecSdk == Init /\ [][NextSdk]_vars

\* The escrow with the plain and the fee asset, whose transfers succeed, and
\* without emergency recovery; the owner pauses and unpauses at will, and an
\* agent who can claim does not wait forever.
NextLive ==
    \/ \E c \in HonestCreations : createTask(c[1], c[2], c[3], c[4], c[5])
    \/ \E s \in Senders, i \in CallIds : approvePayment(s, i)
    \/ \E s \in Senders, i \in CallIds : claimPayment(s, i)
    \/ \E s \in Senders, i \in CallIds : cancelTaskAndRefund(s, i)
    \/ \E s \in Senders : pause(s)
    \/ \E s \in Senders : unpause(s)

SpecLive ==
    /\ Init
    /\ [][NextLive]_vars
    /\ \A i \in TaskIds : WF_vars(claimPayment(AGENT, i))

\* ------------------------------------------------- retryWithBackoff (SDK)
\* The largest maxAttempts a caller passes.
MaxAttempts == 3

\* The maxAttempts a caller passes (none, one and several attempts) and the
\* baseDelay (none, and the default of one second).
RetryAttempts == 0 .. MaxAttempts
RetryDelays == {0, 1000}

\* What fn resolves to and what it rejects with.
FnValues == {"receipt"}
FnErrors == {"timeout", "reverted"}

\* Math.pow(2, n) for the exponents the loop uses.
RECURSIVE Pow2(_)
Pow2(n) == IF n <= 0 THEN 1 ELSE 2 * Pow2(n - 1)

\* `attempt === maxAttempts`: the failure just caught was the last attempt's.
isLastAttemptNever(attempt, maxAttempts) == FALSE

isLastAttempt(attempt, maxAttempts) == attempt = maxAttempts

\* `baseDelay * Math.pow(2, attempt - 1)`: the delay after a failed attempt.
backoffDelayConstant(baseDelay, attempt) == baseDelay

backoffDelay(baseDelay, attempt) == baseDelay * Pow2(attempt - 1)

\* The loop's test `attempt <= maxAttempts`, at entry and after attempt++:
\* the next thing to do is another call of fn, or the final throw.
loopTest(attempt, maxAttempts) ==
    IF attempt <= maxAttempts THEN "call" ELSE "throw"

\* The call of retryWithBackoff(fn, maxAttempts, baseDelay): lastError is
\* declared and left undefined, attempt starts at 1 and the loop is tested.
retryWithBackoff(maxAttempts, baseDelay) ==
    /\ retry.pc = "idle"
    /\ retry' = [retry EXCEPT
                   !.pc = loopTest(1, maxAttempts),
                   !.maxAttempts = maxAttempts,
                   !.baseDelay = baseDelay,
                   !.attempt = 1]
    /\ UNCHANGED <<nextTaskId, tasks, paused, balances, allowances, events,
                   outbound, stack, donated, recoveries, _destroyed>>

\* `return await fn()` when fn resolves: its value is the result.
fnResolves(value) ==
    /\ retry.pc = "call"
    /\ retry' = [retry EXCEPT
                   !.pc = "returned",
                   !.calls = @ + 1,
                   !.result = value]
    /\ UNCHANGED <<nextTaskId, tasks, paused, balances, allowances, events,
                   outbound, stack, donated, recoveries, _destroyed>>

\* `return await fn()` when fn rejects: the catch block keeps the error, and
\* either leaves the loop or computes the delay and starts the timer.
fnRejects(error) ==
    /\ retry.pc = "call"
    /\ LET last == isLastAttempt(retry.attempt, retry.maxAttempts)
           delay == backoffDelay(retry.baseDelay, retry.attempt)
       IN  retry' = [retry EXCEPT
                       !.pc = IF last THEN "throw" ELSE "wait",
                       !.calls = @ + 1,
                       !.lastError = error,
                       !.failures = Append(@, error),
                       !.waits = IF last THEN @ ELSE Append(@, delay)]
    /\ UNCHANGED <<nextTaskId, tasks, paused, balances, allowances, events,
                   outbound, stack, donated, recoveries, _destroyed>>

\* The timer fires: attempt++ and the loop is tested again.
timerFires ==
    /\ retry.pc = "wait"
    /\ retry' = [retry EXCEPT
                   !.pc = loopTest(retry.attempt + 1, retry.maxAttempts),
                   !.attempt = @ + 1]
    /\ UNCHANGED <<nextTaskId, tasks, paused, balances, allowances, events,
                   outbound, stack, donated, recoveries, _destroyed>>

\* `throw lastError` after the loop.
throwLastError ==
    /\ retry.pc = "throw"
    /\ retry' = [retry EXCEPT !.pc = "thrown", !.result = retry.lastError]
    /\ UNCHANGED <<nextTaskId, tasks, paused, balances, allowances, events,
                   outbound, stack, donated, recoveries, _destroyed>>

\* The steps of a running retryWithBackoff.
RetryStep ==
    \/ \E value \in FnValues : fnResolves(value)
    \/ \E error \in FnErrors : fnRejects(error)
    \/ timerFires
    \/ throwLastError

NextRetry ==
    \/ \E maxAttempts \in RetryAttempts, baseDelay \in RetryDelays :
          retryWithBackoff(maxAttempts, baseDelay)
    \/ \E value \in FnValues : fnResolves(value)
    \/ \E error \in FnErrors : fnRejects(error)
    \/ timerFires
    \/ throwLastError

\* One call of retryWithBackoff whose fn settles each time it is called and
\* whose timers fire.
SpecRetry ==
    /\ Init
    /\ [][NextRetry]_vars
    /\ WF_vars(RetryStep)

\* ------------------------------------------------------------------ claims
\* The state as of the last completed transaction: the state itself between
\* transactions, and the state the outermost running call was entered in
\* otherwise (what remains if that call fails).
Committed == IF stack = <<>> THEN World ELSE stack[Len(stack)].snap

\* A step in which the running call fails and its changes are undone.
CallFails == EvilFails \/ \E d \in EvilDeltas : EvilPullRejected(d)

Terminal == {"Paid", "Cancelled"}

\* C1: every change of a task's status made by a call is Created->Approved by
\* approvePayment, Approved->Paid by claimPayment or Created->Cancelled by
\* cancelTaskAndRefund on that task; the only other change of a status is a
\* failing call putting back the status it was entered with.
C1_StatusGraph ==
    [][\A t \in TaskIds :
          tasks'[t].status # tasks[t].status =>
            \/ CallFails /\ tasks'[t].status = Head(stack).snap.tasks[t].status
            \/ /\ tasks[t].status = "Created" /\ tasks'[t].status = "Approved"
               /\ \E s \in Senders : approvePayment(s, t)
            \/ /\ tasks[t].status = "Approved" /\ tasks'[t].status = "Paid"
               /\ \E s \in Senders : claimPayment(s, t)
            \/ /\ tasks[t].status = "Created" /\ tasks'[t].status = "Cancelled"
               /\ \E s \in Senders : cancelTaskAndRefund(s, t)]_vars

C1_Witness ==
    /\ stack = <<>>
    /\ \E t, u \in TaskIds :
          /\ t < nextTaskId /\ u < nextTaskId
          /\ tasks[t].status = "Paid" /\ tasks[u].status = "Cancelled"

\* C2: once a task is Paid or Cancelled as of a completed transaction, its
\* status never changes again, and in every state approvePayment, claimPayment
\* and cancelTaskAndRefund fail on a Paid or Cancelled task for every caller.
C2_TerminalStays ==
    /\ [][\A t \in TaskIds :
            (t < Committed.nextTaskId /\ Committed.tasks[t].status \in Terminal) =>
               /\ tasks'[t].status = Committed.tasks[t].status
               /\ Committed'.tasks[t].status = Committed.tasks[t].status]_vars
    /\ [](\A t \in TaskIds, s \in Senders :
            (t < nextTaskId /\ tasks[t].status \in Terminal) =>
               /\ approvePaymentError(s, t) # ""
               /\ claimPaymentError(s, t) # ""
               /\ cancelTaskAndRefundError(s, t) # "")

C2_Witness ==
    /\ stack # <<>>
    /\ \E t \in TaskIds :
          /\ t < Committed.nextTaskId
          /\ Committed.tasks[t].status = "Paid"
          /\ tasks[t].token = EVIL
          /\ Head(stack).sender = EVIL

\* C3: while the transfer made by claimPayment(t) or cancelTaskAndRefund(t) is
\* running, claimPayment(t) and cancelTaskAndRefund(t) fail for every caller,
\* and no task ever has more than one outbound transfer made for it.
C3_NoDoubleTransfer ==
    /\ \A i \in 1 .. Len(stack) :
          stack[i].fn \in {"claimPayment", "cancelTaskAndRefund"} =>
             \A s \in Senders :
                /\ claimPaymentError(s, stack[i].taskId) # ""
                /\ cancelTaskAndRefundError(s, stack[i].taskId) # ""
    /\ \A t \in TaskIds : outbound[t] <= 1

\* The asset, which is the agent of the task being paid, is inside the
\* transfer and its nested claim gets past the caller check.
C3_Witness ==
    /\ stack # <<>>
    /\ Head(stack).fn = "claimPayment"
    /\ tasks[Head(stack).taskId].agent = EVIL
    /\ claimPaymentError(EVIL, Head(stack).taskId) = "TaskEscrow: Payment is not approved"
    /\ \E i \in 1 .. Len(stack) : stack[i].fn = "cancelTaskAndRefund"

Residual(token) == balances[token][ESCROW] - ActiveSum(token)

\* C4: without callbacks and without emergency recovery, the escrow's balance
\* of the plain and of the fee asset is the sum of amount over that asset's
\* Created and Approved tasks plus what was sent to the escrow directly, and
\* no step decreases the balance in excess of the active tasks.
C4_Custody ==
    /\ [](\A token \in {STD, FEE} :
            balances[token][ESCROW] = ActiveSum(token) + donated[token])
    /\ [][\A token \in {STD, FEE} : Residual(token)' >= Residual(token)]_vars

C4_Witness ==
    /\ donated[FEE] > 0
    /\ \E t, u \in TaskIds :
          /\ t < nextTaskId /\ u < nextTaskId
          /\ tasks[t].token = FEE /\ tasks[t].status = "Approved"
          /\ tasks[u].token = FEE /\ tasks[u].status = "Paid"

\* The plain or fee asset cannot pay task t out of the escrow's balance.
Starved(t) ==
    /\ t < nextTaskId
    /\ tasks[t].token \in {STD, FEE}
    /\ safeTransferError(tasks[t].token, tasks[t].amount) # ""

\* C5: when the outbound transfer of claimPayment or cancelTaskAndRefund fails,
\* the call leaves the state it was entered in: the status is still Approved
\* (Created for a cancel) and tasks, balances and events are unchanged; on a
\* plain or fee asset that cannot pay, no step settles the task.
C5_TransferFailureAtomic ==
    [][/\ (EvilFails /\ Head(stack).fn \in {"claimPayment", "cancelTaskAndRefund"}) =>
            /\ tasks'[Head(stack).taskId].status =
                 (IF Head(stack).fn = "claimPayment" THEN "Approved" ELSE "Created")
            /\ tasks' = Head(stack).snap.tasks
            /\ balances' = Head(stack).snap.balances
            /\ events' = Head(stack).snap.events
            /\ nextTaskId' = Head(stack).snap.nextTaskId
       /\ \A t \in TaskIds : (Starved(t) /\ tasks[t].status \notin Terminal) =>
            /\ tasks'[t].status \notin Terminal
            /\ \A s \in Senders : claimPaymentResult(s, t) # ""
            /\ \A s \in Senders : cancelTaskAndRefundResult(s, t) # ""]_vars

\* A plain-asset task is Approved and cannot be paid, and the untrusted asset
\* is inside the transfer of a claimPayment.
C5_Witness ==
    /\ \E t \in TaskIds : Starved(t) /\ tasks[t].status = "Approved"
    /\ stack # <<>>
    /\ Head(stack).fn = "claimPayment"

\* C6: on an existing task approvePayment and cancelTaskAndRefund fail for
\* every caller but the task's client, and claimPayment fails for every caller
\* but the task's agent; when the system is not paused the failure is the
\* caller check's own, whatever the status.  A failing call changes nothing.
C6_Authorization ==
    \A t \in TaskIds, s \in Senders :
       t < nextTaskId =>
          /\ s # tasks[t].client =>
                /\ approvePaymentError(s, t) # ""
                /\ cancelTaskAndRefundError(s, t) # ""
                /\ ~paused =>
                     /\ approvePaymentError(s, t) = "TaskEscrow: Only client can approve payment"
                     /\ cancelTaskAndRefundError(s, t) = "TaskEscrow: Only client can cancel task"
          /\ s # tasks[t].agent =>
                /\ claimPaymentError(s, t) # ""
                /\ ~paused =>
                     claimPaymentError(s, t) = "TaskEscrow: Only agent can claim payment"

\* An Approved task that its client and the owner may not claim, and a Created
\* task that its agent and the owner may not approve or cancel.
C6_Witness ==
    /\ ~paused
    /\ \E t, u \in TaskIds :
          /\ t < nextTaskId /\ u < nextTaskId
          /\ tasks[t].status = "Approved" /\ tasks[t].agent = AGENT
          /\ claimPaymentError(tasks[t].client, t) # ""
          /\ claimPaymentError(AGENT, t) = ""
          /\ tasks[u].status = "Created" /\ tasks[u].client = CLIENT
          /\ approvePaymentError(OWNER, u) # ""
          /\ approvePaymentError(CLIENT, u) = ""

CreatedEvents == {e \in BagToSet(events) : e.type = "TaskCreated"}

\* C7: getTaskCount() is the number of TaskCreated events recorded, which is
\* the number of createTask calls that succeeded; ids 0 .. count-1 each have
\* exactly one creation, stored under its id; a step that changes the count
\* either undoes a failing call or is the creation of the task with id = the
\* old count, which raises the count by one.
C7_MonotonicIds ==
    /\ [](/\ getTaskCount = BagCardinality(
                [e \in CreatedEvents |-> CopiesIn(e, events)])
          /\ \A k \in TaskIds : k < nextTaskId =>
                /\ tasks[k].id = k
                /\ Cardinality({e \in CreatedEvents : e.taskId = k}) = 1
                /\ \A e \in CreatedEvents : e.taskId = k => CopiesIn(e, events) = 1
          /\ \A e \in CreatedEvents : e.taskId < nextTaskId)
    /\ [][nextTaskId' # nextTaskId =>
            \/ CallFails /\ nextTaskId' = Head(stack).snap.nextTaskId
            \/ /\ nextTaskId' = nextTaskId + 1
               /\ tasks'[nextTaskId].id = nextTaskId
               /\ \E e \in BagToSet(events') :
                     /\ e.type = "TaskCreated" /\ e.taskId = nextTaskId
                     /\ CopiesIn(e, events) = 0
               /\ \A k \in TaskIds : k < nextTaskId => tasks'[k] = tasks[k]]_vars

\* Two tasks were created, the second one inside the pull of the first.
C7_Witness ==
    /\ nextTaskId = 2
    /\ stack = <<>>
    /\ tasks[0].token = EVIL /\ tasks[1].token = EVIL
    /\ tasks[0].client = EVIL /\ tasks[1].client = CLIENT

\* C8: a successful createTask stores the increase of the escrow's balance of
\* the asset, not the requested amount; with the fee asset a request r stores
\* r - floor(5r/100), and 100 stores 95; the TaskCreated event carries the
\* requested amount and the stored amount.
C8_FeeAwareAmount ==
    [][\A c \in HonestCreations :
          createTask(c[1], c[2], c[3], c[4], c[5]) =>
             LET t == nextTaskId
                 r == c[4]
             IN /\ tasks'[t].amount = balances'[c[3]][ESCROW] - balances[c[3]][ESCROW]
                /\ c[3] = FEE => tasks'[t].amount = r - ((5 * r) \div 100)
                /\ (c[3] = FEE /\ r = 100) => tasks'[t].amount = 95
                /\ c[3] = STD => tasks'[t].amount = r
                /\ \E e \in BagToSet(events') :
                      /\ CopiesIn(e, events) = 0
                      /\ e.type = "TaskCreated" /\ e.taskId = t
                      /\ e.requestedAmount = r
                      /\ e.actualAmount = tasks'[t].amount]_vars

C8_Witness ==
    /\ nextTaskId = 2
    /\ tasks[0].token = FEE /\ tasks[0].amount = 95
    /\ tasks[1].token = FEE /\ tasks[1].amount = 38

\* C9: when the pull of createTask returns with the escrow's balance of the
\* asset equal to the balance read before the pull, createTask fails: tasks,
\* count and events are what they were when createTask was called.
C9_ZeroDeltaFails ==
    [][\A d \in EvilDeltas :
          ( /\ stack # <<>>
            /\ Head(stack).fn = "createTask"
            /\ balances[EVIL][ESCROW] + d = Head(stack).balanceBefore
            /\ EvilPullReturns(d) \/ EvilPullRejected(d) ) =>
             /\ nextTaskId' = Head(stack).snap.nextTaskId
             /\ tasks' = Head(stack).snap.tasks
             /\ events' = Head(stack).snap.events]_vars

\* The asset is inside the pull of a createTask and the escrow's balance is
\* what it was before the pull.
C9_Witness ==
    /\ stack # <<>>
    /\ Head(stack).fn = "createTask"
    /\ balances[EVIL][ESCROW] = Head(stack).balanceBefore
    /\ nextTaskId = 1

\* C10: while paused, createTask, approvePayment, claimPayment and
\* cancelTaskAndRefund fail with the paused error for every caller, every id
\* and every argument, and no step changes a task, the count or the events;
\* a balance changes only by emergencyRecoverToken.
C10_PausedBlocks ==
    /\ [](paused =>
            /\ \A s \in Senders, i \in CallIds :
                  /\ approvePaymentError(s, i) = "EnforcedPause"
                  /\ claimPaymentError(s, i) = "EnforcedPause"
                  /\ cancelTaskAndRefundError(s, i) = "EnforcedPause"
            /\ \A s \in Senders, a \in AgentArgs, t \in TokenArgs, m \in Amounts,
                  h \in Metadata :
                  createTaskError(s, a, t, m, h) = "EnforcedPause")
    /\ [][paused =>
            /\ tasks' = tasks
            /\ nextTaskId' = nextTaskId
            /\ events' = events
            /\ balances' # balances =>
                 \E t \in RecoverTokens, m \in RecoverAmounts :
                    emergencyRecoverToken(OWNER, t, m)]_vars

C10_Witness ==
    /\ paused
    /\ \E t, u \in TaskIds :
          /\ t < nextTaskId /\ u < nextTaskId
          /\ tasks[t].status = "Approved"
          /\ tasks[u].status = "Created"

\* C11: getTaskInfo, getTaskMetadata, taskExists and getTaskCount do not depend
\* on the pause flag: a step that flips the flag leaves what each of them
\* returns, and whether it reverts, as it was for every id; while paused they
\* still succeed on every existing task; and a call of a view changes nothing.
C11_ViewsIgnorePause ==
    /\ [][paused' # paused =>
            /\ getTaskCount' = getTaskCount
            /\ \A i \in CallIds :
                  /\ getTaskInfoError(i)' = getTaskInfoError(i)
                  /\ getTaskInfo(i)' = getTaskInfo(i)
                  /\ getTaskMetadataError(i)' = getTaskMetadataError(i)
                  /\ getTaskMetadata(i)' = getTaskMetadata(i)
                  /\ taskExistsError(i)' = taskExistsError(i)
                  /\ taskExists(i)' = taskExists(i)]_vars
    /\ [](paused => \A i \in TaskIds : i < getTaskCount =>
            /\ getTaskInfo(i) = {tasks[i]}
            /\ getTaskMetadata(i) = {tasks[i].metadataHash}
            /\ taskExists(i))
    /\ [][((\E i \in CallIds : getTaskInfoCall(i) \/ getTaskMetadataCall(i)
                                  \/ taskExistsCall(i)) \/ getTaskCountCall)
            => UNCHANGED vars]_vars

C11_Witness ==
    /\ paused
    /\ getTaskCount = 1
    /\ tasks[0].status = "Approved"
    /\ getTaskInfo(0) = {tasks[0]}
    /\ getTaskInfo(1) = {}

\* C12: pause, unpause and emergencyRecoverToken fail for every caller other
\* than the owner, whatever the state and the arguments; the pause flag only
\* changes in a pause or unpause call made by the owner, and a recovery only
\* happens in a call made by the owner; a failing call changes nothing.
C12_OwnerOnly ==
    /\ [](\A s \in Senders \ {OWNER} :
            /\ pauseError(s) = "OwnableUnauthorizedAccount"
            /\ unpauseError(s) = "OwnableUnauthorizedAccount"
            /\ \A t \in RecoverTokens, m \in RecoverAmounts :
                  emergencyRecoverTokenError(s, t, m) = "OwnableUnauthorizedAccount")
    /\ [][/\ paused' # paused => (pause(OWNER) \/ unpause(OWNER))
          /\ recoveries' # recoveries =>
                \E t \in RecoverTokens, m \in RecoverAmounts :
                    emergencyRecoverToken(OWNER, t, m)
          /\ (pauseReverts \/ unpauseReverts \/ emergencyRecoverTokenReverts)
                => (paused' = paused /\ tasks' = tasks /\ balances' = balances)]_vars

C12_Witness ==
    /\ paused
    /\ recoveries > 0
    /\ nextTaskId > 0
    /\ balances[STD][ESCROW] > 0
    /\ pauseError(AGENT) = "OwnableUnauthorizedAccount"
    /\ unpauseError(CLIENT) = "OwnableUnauthorizedAccount"

\* Amounts the owner may ask to recover: none, parts of a task's amount, a whole
\* task's amount, and the escrow's whole balance of the token.
ProbeAmounts(token) == {0, 38, 50, 95, 100, balances[token][ESCROW]}

C14_BalanceCoversActive ==
    \A t \in {STD, FEE} : balances[t][ESCROW] >= ActiveSum(t)

\* C15: approvePayment, claimPayment and cancelTaskAndRefund fail on an id that
\* is not below getTaskCount(), for a caller that is not the task's client
\* (agent for claimPayment), and on a task that is not in the status the
\* function starts from; in each of these cases the function cannot take
\* effect, and the failing call leaves tasks, count, pause flag and balances.
C15_RejectedCallsChangeNothing ==
    /\ [](\A s \in Senders, i \in CallIds :
            /\ (\/ i >= getTaskCount
                \/ s # tasks[i].client
                \/ tasks[i].status # "Created") =>
                  /\ approvePaymentError(s, i) # ""
                  /\ ~ENABLED approvePayment(s, i)
                  /\ cancelTaskAndRefundError(s, i) # ""
                  /\ ~ENABLED cancelTaskAndRefund(s, i)
            /\ (\/ i >= getTaskCount
                \/ s # tasks[i].agent
                \/ tasks[i].status # "Approved") =>
                  /\ claimPaymentError(s, i) # ""
                  /\ ~ENABLED claimPayment(s, i))
    /\ [][(approvePaymentReverts \/ claimPaymentReverts \/ cancelTaskAndRefundReverts)
            => /\ tasks' = tasks
               /\ nextTaskId' = nextTaskId
               /\ paused' = paused
               /\ balances' = balances]_vars

\* Not paused, one Approved task and no second task: the client's approve and
\* cancel meet the status check, the client's claim the caller check, and
\* every call on id 1 the existence check.
C15_Witness ==
    /\ ~paused
    /\ getTaskCount = 1
    /\ tasks[0].status = "Approved"
    /\ approvePaymentError(tasks[0].client, 0) = "TaskEscrow: Task is not in Created status"
    /\ claimPaymentError(tasks[0].client, 0) = "TaskEscrow: Only agent can claim payment"
    /\ cancelTaskAndRefundError(tasks[0].client, 1) = "TaskEscrow: Task does not exist"

\* C16: right after a successful approvePayment(t) a second one by the same
\* caller fails with the status error, and likewise a repeated claimPayment(t)
\* or cancelTaskAndRefund(t); and in every later state that is not paused the
\* client's approvePayment on an Approved, Paid or Cancelled task, the agent's
\* claimPayment on a Paid task and the client's cancelTaskAndRefund on a
\* Cancelled task fail with the status error.
C16_RepeatsRejected ==
    /\ [][\A s \in Senders, t \in TaskIds :
            /\ approvePayment(s, t) =>
                 approvePaymentError(s, t)' = "TaskEscrow: Task is not in Created status"
            /\ claimPayment(s, t) =>
                 claimPaymentError(s, t)' = "TaskEscrow: Payment is not approved"
            /\ cancelTaskAndRefund(s, t) =>
                 cancelTaskAndRefundError(s, t)' =
                     "TaskEscrow: Can only cancel tasks in Created status"]_vars
    /\ [](\A t \in TaskIds : (~paused /\ t < nextTaskId) =>
            /\ tasks[t].status \in {"Approved", "Paid", "Cancelled"} =>
                 approvePaymentError(tasks[t].client, t) =
                     "TaskEscrow: Task is not in Created status"
            /\ tasks[t].status = "Paid" =>
                 claimPaymentError(tasks[t].agent, t) = "TaskEscrow: Payment is not approved"
            /\ tasks[t].status = "Cancelled" =>
                 cancelTaskAndRefundError(tasks[t].client, t) =
                     "TaskEscrow: Can only cancel tasks in Created status")

\* One task was approved and claimed, the other cancelled.
C16_Witness ==
    /\ ~paused
    /\ stack = <<>>
    /\ nextTaskId = 2
    /\ tasks[0].status = "Paid"
    /\ tasks[1].status = "Cancelled"
    /\ outbound[0] = 1
    /\ outbound[1] = 1

NotFound == "TaskEscrow: Task does not exist"

\* What creation stored for an existing id is what the views return: the
\* record's id, client, agent, token, amount and metadata are those of the
\* TaskCreated event of that id.
ReturnsStored(i) ==
    /\ getTaskInfoError(i) = ""
    /\ getTaskMetadataError(i) = ""
    /\ getTaskInfo(i) = {tasks[i]}
    /\ \E e \in CreatedEvents :
          /\ e.taskId = i
          /\ getTaskMetadata(i) = {e.metadataHash}
          /\ \A r \in getTaskInfo(i) :
                /\ r.id = i
                /\ r.client = e.client
                /\ r.agent = e.agent
                /\ r.token = e.token
                /\ r.amount = e.actualAmount
                /\ r.metadataHash = e.metadataHash

\* C17 as stated: for every id >= getTaskCount() the two by-id views and the
\* three task functions fail with the task-does-not-exist error, in every
\* state; for every id < getTaskCount() the views return what was stored.
C17_NotFoundAlways ==
    \A i \in CallIds :
       /\ i >= getTaskCount =>
             /\ getTaskInfoError(i) = NotFound
             /\ getTaskMetadataError(i) = NotFound
             /\ \A s \in Senders :
                   /\ approvePaymentError(s, i) = NotFound
                   /\ claimPaymentError(s, i) = NotFound
                   /\ cancelTaskAndRefundError(s, i) = NotFound
       /\ i < getTaskCount => ReturnsStored(i)

\* C17 amended: for every id >= getTaskCount() getTaskInfo and getTaskMetadata
\* fail with the task-does-not-exist error in every state, and approvePayment,
\* claimPayment and cancelTaskAndRefund fail with it while the escrow is not
\* paused (while paused they fail with the paused error, which is checked
\* first); for every id < getTaskCount() the views return what was stored.
C17_NotFoundUnlessPaused ==
    \A i \in CallIds :
       /\ i >= getTaskCount =>
             /\ getTaskInfoError(i) = NotFound
             /\ getTaskMetadataError(i) = NotFound
             /\ \A s \in Senders :
                   /\ approvePaymentError(s, i) = (IF paused THEN "EnforcedPause" ELSE NotFound)
                   /\ claimPaymentError(s, i) = (IF paused THEN "EnforcedPause" ELSE NotFound)
                   /\ cancelTaskAndRefundError(s, i) =
                         (IF paused THEN "EnforcedPause" ELSE NotFound)
       /\ i < getTaskCount => ReturnsStored(i)

\* Not paused, id 0 created and since paid out, id 1 not created.
C17_Witness ==
    /\ ~paused
    /\ getTaskCount = 1
    /\ tasks[0].status = "Paid"
    /\ ReturnsStored(0)
    /\ getTaskInfo(1) = {}
    /\ getTaskMetadata(1) = {}
    /\ claimPaymentError(AGENT, 1) = NotFound

\* C18: in every reachable state taskExists(id) is true exactly for the ids
\* below getTaskCount(), which are exactly the ids a TaskCreated event was
\* recorded for and the ids of the stored records; for any other id it returns
\* false and does not fail.
C18_ExistsIffCreated ==
    \A i \in CallIds :
       /\ taskExistsError(i) = ""
       /\ taskExists(i) \in BOOLEAN
       /\ taskExists(i) <=> i < getTaskCount
       /\ taskExists(i) <=> (\E e \in CreatedEvents : e.taskId = i)
       /\ i \in TaskIds => (taskExists(i) <=> tasks[i] # EmptyTask)

\* The test's case: one task created, taskExists(0) true, taskExists(1) false.
C18_Witness ==
    /\ getTaskCount = 1
    /\ taskExists(0)
    /\ ~taskExists(1)
    /\ taskExistsError(1) = ""
    /\ tasks[1] = EmptyTask

\* C19 as stated: for every id >= getTaskCount(), taskExists(id) fails with the
\* not-found error, as getTaskInfo and getTaskMetadata do.
C19_ExistsFailsNotFound ==
    \A i \in CallIds : i >= getTaskCount =>
       /\ getTaskInfoError(i) = NotFound
       /\ getTaskMetadataError(i) = NotFound
       /\ taskExistsError(i) = NotFound

\* C19 amended: for every id >= getTaskCount(), getTaskInfo and getTaskMetadata
\* fail with the not-found error and return nothing, while taskExists(id) does
\* not fail and returns false.
C19_ExistsReturnsFalse ==
    \A i \in CallIds : i >= getTaskCount =>
       /\ getTaskInfoError(i) = NotFound
       /\ getTaskInfo(i) = {}
       /\ getTaskMetadataError(i) = NotFound
       /\ getTaskMetadata(i) = {}
       /\ taskExistsError(i) = ""
       /\ taskExists(i) = FALSE

\* One task created: id 1 is the first id that does not exist.
C19_Witness ==
    /\ getTaskCount = 1
    /\ tasks[0].status = "Created"
    /\ getTaskInfoError(1) = NotFound
    /\ getTaskMetadataError(1) = NotFound
    /\ taskExists(1) = FALSE

\* C20: createTask with a requested amount of 0, the zero agent, the zero
\* token, empty metadata or the caller as agent fails in the require chain that
\* precedes the pull, for every caller and whatever the other arguments: the
\* call cannot take effect, no pull is ever in progress and no task or
\* TaskCreated event ever exists with such arguments, and the failing call
\* leaves the count, the tasks and the balances.
C20_ValidationBeforePull ==
    /\ [](\A s \in Clients, a \in AgentArgs, t \in TokenArgs, m \in Amounts,
             h \in Metadata :
            (m = 0 \/ a = ZERO \/ t = ZERO \/ h = "" \/ a = s) =>
               /\ createTaskError(s, a, t, m, h) # ""
               /\ createTaskResult(s, a, t, m, h) = createTaskError(s, a, t, m, h)
               /\ ~ENABLED createTask(s, a, t, m, h))
    /\ [](/\ \A i \in 1 .. Len(stack) : stack[i].fn = "createTask" =>
                /\ stack[i].amount > 0
                /\ stack[i].agent \notin {ZERO, stack[i].sender}
                /\ stack[i].meta # ""
          /\ \A e \in CreatedEvents :
                /\ e.requestedAmount > 0
                /\ e.agent \notin {ZERO, e.client}
                /\ e.token # ZERO
                /\ e.metadataHash # "")
    /\ [][createTaskReverts =>
            /\ nextTaskId' = nextTaskId
            /\ tasks' = tasks
            /\ balances' = balances]_vars

\* Not paused, room for another task, the client funded and approved: a call
\* with valid arguments would go through, the invalid ones fail on validation.
C20_Witness ==
    /\ ~paused
    /\ stack = <<>>
    /\ nextTaskId = 1
    /\ createTaskResult(CLIENT, AGENT, STD, 100, "m1") = ""
    /\ createTaskError(CLIENT, AGENT, STD, 0, "m1")
          = "TaskEscrow: Amount must be greater than zero"
    /\ createTaskError(CLIENT, CLIENT, STD, 100, "m1")
          = "TaskEscrow: Agent cannot be the same as client"
    /\ createTaskError(CLIENT, AGENT, STD, 100, "")
          = "TaskEscrow: Metadata hash cannot be empty"

\* The fields of a task record that creation fixes.
Fixed(task) ==
    <<task.id, task.client, task.agent, task.token, task.amount, task.metadataHash>>

\* C21: the id, client, agent, token, amount and metadataHash of an existing
\* task are the same after every step that is not the revert of the call that
\* created it, and from one completed transaction to the next; the record stays
\* (the count never drops below its id), and a Paid or Cancelled task is still
\* returned by getTaskInfo with the amount its TaskCreated event reports.
C21_RecordFixed ==
    /\ [][\A t \in TaskIds :
            /\ (t < nextTaskId /\ ~CallFails) =>
                  /\ t < nextTaskId'
                  /\ Fixed(tasks'[t]) = Fixed(tasks[t])
            /\ t < Committed.nextTaskId =>
                  /\ t < Committed'.nextTaskId
                  /\ Fixed(Committed'.tasks[t]) = Fixed(Committed.tasks[t])]_vars
    /\ [](\A t \in TaskIds : (t < nextTaskId /\ tasks[t].status \in Terminal) =>
            /\ getTaskInfo(t) = {tasks[t]}
            /\ \E e \in CreatedEvents :
                  e.taskId = t /\ e.actualAmount = tasks[t].amount)

\* A fee-asset task, stored with 95, has been approved and paid out.
C21_Witness ==
    /\ stack = <<>>
    /\ nextTaskId > 0
    /\ tasks[0].status = "Paid"
    /\ tasks[0].token = FEE
    /\ getTaskInfo(0) = {tasks[0]}
    /\ \A r \in getTaskInfo(0) : r.amount = 95

\* C22: a successful claimPayment(t) on a task of the plain (fee-free) asset
\* sets the status to Paid, credits the agent exactly t.amount, debits the
\* escrow exactly t.amount of that asset, and changes no other balance.
C22_ClaimMovesAmount ==
    [][\A s \in Senders, t \in TaskIds :
         (claimPayment(s, t) /\ tasks[t].token = STD) =>
            /\ s = tasks[t].agent
            /\ tasks[t].status = "Approved"
            /\ tasks'[t].status = "Paid"
            /\ balances'[STD][tasks[t].agent] = balances[STD][tasks[t].agent] + tasks[t].amount
            /\ balances'[STD][ESCROW] = balances[STD][ESCROW] - tasks[t].amount
            /\ \A k \in Tokens, h \in Holders :
                  (k # STD \/ h \notin {ESCROW, tasks[t].agent}) =>
                      balances'[k][h] = balances[k][h]]_vars

\* The plain-asset task of 100 has been paid to the agent, nothing is left in
\* the escrow.
C22_Witness ==
    /\ stack = <<>>
    /\ nextTaskId = 1
    /\ tasks[0].token = STD
    /\ tasks[0].status = "Paid"
    /\ balances[STD][AGENT] = 100
    /\ balances[STD][ESCROW] = 0
    /\ balances[STD][CLIENT] = ClientFunds - 100

\* What a successful cancelTaskAndRefund(t) does on a task of the plain asset:
\* the caller is the client, the status goes from Created to Cancelled, the
\* client is credited and the escrow debited exactly t.amount, and no other
\* balance changes.
CancelRefundsAmount ==
    \A s \in Senders, t \in TaskIds :
       (cancelTaskAndRefund(s, t) /\ tasks[t].token = STD) =>
          /\ s = tasks[t].client
          /\ tasks[t].status = "Created"
          /\ tasks'[t].status = "Cancelled"
          /\ balances'[STD][tasks[t].client] = balances[STD][tasks[t].client] + tasks[t].amount
          /\ balances'[STD][ESCROW] = balances[STD][ESCROW] - tasks[t].amount
          /\ \A k \in Tokens, h \in Holders :
                (k # STD \/ h \notin {ESCROW, tasks[t].client}) =>
                    balances'[k][h] = balances[k][h]

\* C23 as stated: a successful cancelTaskAndRefund(t) on a plain-asset task
\* sets the status to Cancelled and returns exactly t.amount to the client, and
\* in every later state claimPayment(t) by the agent fails with the state error.
C23_CancelThenClaimStateError ==
    /\ [][CancelRefundsAmount]_vars
    /\ [](\A t \in TaskIds : (t < nextTaskId /\ tasks[t].status = "Cancelled") =>
            claimPaymentError(tasks[t].agent, t) = "TaskEscrow: Payment is not approved")

\* C23 amended: a successful cancelTaskAndRefund(t) on a plain-asset task sets
\* the status to Cancelled and returns exactly t.amount to the client; every
\* later claimPayment(t) by the agent fails, with the state error while the
\* escrow is not paused and with the paused error while it is.
C23_CancelThenClaimFails ==
    /\ [][CancelRefundsAmount]_vars
    /\ [](\A t \in TaskIds : (t < nextTaskId /\ tasks[t].status = "Cancelled") =>
            /\ ~ENABLED claimPayment(tasks[t].agent, t)
            /\ claimPaymentError(tasks[t].agent, t) =
                  (IF paused THEN "EnforcedPause"
                   ELSE "TaskEscrow: Payment is not approved"))

\* The plain-asset task was cancelled and the client has the 100 back.
C23_Witness ==
    /\ ~paused
    /\ stack = <<>>
    /\ nextTaskId = 1
    /\ tasks[0].token = STD
    /\ tasks[0].status = "Cancelled"
    /\ balances[STD][CLIENT] = ClientFunds
    /\ balances[STD][ESCROW] = 0
    /\ claimPaymentError(AGENT, 0) = "TaskEscrow: Payment is not approved"

\* The events of one kind recorded for a task id.
EventsOf(kind, t) == {e \in BagToSet(events) : e.type = kind /\ e.taskId = t}

\* The status the event log gives a task id ("None" when nothing is logged).
StatusFromLog(t) ==
    IF EventsOf("PaymentClaimed", t) # {} THEN "Paid"
    ELSE IF EventsOf("TaskCancelled", t) # {} THEN "Cancelled"
    ELSE IF EventsOf("PaymentApproved", t) # {} THEN "Approved"
    ELSE IF EventsOf("TaskCreated", t) # {} THEN "Created"
    ELSE "None"

\* C24: approvePayment, claimPayment and cancelTaskAndRefund add exactly one
\* event, of their own kind, with the task id (PaymentClaimed with the stored
\* amount); a creation adds exactly one TaskCreated with the new id; a call that
\* fails leaves the log as it was when the call began; no event is recorded
\* twice; and in every state the status of every id is the one read off the log.
C24_EventsTellStatus ==
    /\ [][/\ \A s \in Senders, t \in TaskIds :
               /\ approvePayment(s, t) =>
                     events' = events (+) SetToBag({PaymentApproved(t)})
               /\ claimPayment(s, t) =>
                     events' = events (+) SetToBag({PaymentClaimed(t, tasks[t].amount)})
               /\ cancelTaskAndRefund(s, t) =>
                     events' = events (+) SetToBag({TaskCancelled(t)})
          /\ nextTaskId' = nextTaskId + 1 =>
               \E e \in CreatedEvents' :
                  /\ e.taskId = nextTaskId
                  /\ e.actualAmount = tasks'[nextTaskId].amount
                  /\ events' = events (+) SetToBag({e})
          /\ CallFails => events' = Head(stack).snap.events
          /\ (createTaskReverts \/ approvePaymentReverts \/ claimPaymentReverts
                \/ cancelTaskAndRefundReverts) => events' = events]_vars
    /\ [](/\ \A e \in BagToSet(events) : CopiesIn(e, events) = 1
          /\ \A t \in TaskIds :
                /\ Cardinality(EventsOf("TaskCreated", t)) <= 1
                /\ Cardinality(EventsOf("PaymentClaimed", t)) <= 1
                /\ StatusFromLog(t) =
                      (IF t < nextTaskId THEN tasks[t].status ELSE "None"))

\* The log holds an event of each of the four kinds.
C24_Witness ==
    /\ stack = <<>>
    /\ nextTaskId = 2
    /\ \E t, u \in TaskIds :
          /\ EventsOf("TaskCreated", t) # {} /\ EventsOf("TaskCreated", u) # {}
          /\ EventsOf("PaymentApproved", t) # {}
          /\ EventsOf("PaymentClaimed", t) # {}
          /\ EventsOf("TaskCancelled", u) # {}
          /\ BagCardinality(events) = 5

\* Everything but the pause flag.
AllButPaused ==
    <<nextTaskId, tasks, balances, allowances, events, outbound, stack, donated,
      recoveries>>

\* C25: the owner's pause changes the flag from false to true and nothing else;
\* from every paused state the owner's unpause is possible and leads to the same
\* state with the flag false, and it changes nothing else, so the two in a row
\* give back the state before the pause; and right after the unpause no
\* function is blocked by the pause: approve, claim and cancel succeed exactly
\* when the id exists, the caller is the task's client (agent for claim), the
\* status is the one the function starts from and the escrow can pay, and a
\* creation with valid arguments passes its validation.
C25_PauseRoundTrip ==
  /\ [](paused => ENABLED (unpause(OWNER) /\ ~paused' /\ AllButPaused' = AllButPaused))
  /\ [][/\ pause(OWNER) =>
             /\ ~paused /\ paused'
             /\ AllButPaused' = AllButPaused
             /\ unpauseError(OWNER)' = ""
       /\ unpause(OWNER) =>
             /\ paused /\ ~paused'
             /\ AllButPaused' = AllButPaused
             /\ pauseError(OWNER)' = ""
             /\ \A s \in Senders, t \in TaskIds :
                   /\ approvePaymentError(s, t)' = "" <=>
                         (t < nextTaskId /\ s = tasks[t].client
                            /\ tasks[t].status = "Created")
                   /\ claimPaymentResult(s, t)' = "" <=>
                         (/\ t < nextTaskId /\ s = tasks[t].agent
                          /\ tasks[t].status = "Approved"
                          /\ (tasks[t].token = EVIL
                                \/ balances[tasks[t].token][ESCROW] >= tasks[t].amount))
                   /\ cancelTaskAndRefundResult(s, t)' = "" <=>
                         (/\ t < nextTaskId /\ s = tasks[t].client
                          /\ tasks[t].status = "Created"
                          /\ (tasks[t].token = EVIL
                                \/ balances[tasks[t].token][ESCROW] >= tasks[t].amount))
             /\ \A c \in Creations \cup HonestCreations :
                   createTaskError(c[1], c[2], c[3], c[4], c[5])' = ""]_vars

\* Between the pause and the unpause: an Approved task the agent could claim
\* and a Created one the client could approve or cancel are blocked by the
\* pause alone, and the owner can unpause.
C25_Witness ==
    /\ paused
    /\ unpauseError(OWNER) = ""
    /\ \E t, u \in TaskIds :
          /\ t < nextTaskId /\ u < nextTaskId
          /\ tasks[t].status = "Approved"
          /\ tasks[u].status = "Created"
          /\ claimPaymentError(tasks[t].agent, t) = "EnforcedPause"
          /\ cancelTaskAndRefundError(tasks[u].client, u) = "EnforcedPause"
          /\ balances[tasks[t].token][ESCROW] >= tasks[t].amount

\* A step of a function other than pause and unpause, successful or not, or of
\* the token a function is calling.
OtherStep ==
    \/ \E s \in Clients, a \in AgentArgs, t \in TokenArgs, m \in Amounts, h \in Metadata :
          createTask(s, a, t, m, h)
    \/ \E s \in Senders, i \in CallIds :
          approvePayment(s, i) \/ claimPayment(s, i) \/ cancelTaskAndRefund(s, i)
    \/ \E s \in Senders, t \in RecoverTokens, m \in RecoverAmounts :
          emergencyRecoverToken(s, t, m)
    \/ createTaskReverts \/ approvePaymentReverts \/ claimPaymentReverts
    \/ cancelTaskAndRefundReverts \/ emergencyRecoverTokenReverts
    \/ pauseReverts \/ unpauseReverts
    \/ \E i \in CallIds : getTaskInfoCall(i) \/ getTaskMetadataCall(i) \/ taskExistsCall(i)
    \/ getTaskCountCall
    \/ \E d \in EvilDeltas : EvilPullReturns(d) \/ EvilPullRejected(d)
    \/ EvilPushReturns \/ EvilFails

\* C26: the flag is false after deployment; createTask, approvePayment,
\* claimPayment, cancelTaskAndRefund, emergencyRecoverToken and the queries,
\* successful or failing, leave it as it is; it becomes true only in the
\* owner's pause and false only in the owner's unpause, so a paused escrow
\* stays paused over every step that is not the owner's unpause.
C26_FlagOnlyByOwner ==
    /\ ~paused
    /\ [][/\ paused' # paused => ~OtherStep
          /\ (~paused /\ paused') => pause(OWNER)
          /\ (paused /\ ~paused') => unpause(OWNER)
          /\ (paused /\ ~unpause(OWNER)) => paused']_vars

\* Paused, with a recovery made, two tasks created and one of them paid out:
\* creations are turned away.
C26_Witness ==
    /\ paused
    /\ recoveries > 0
    /\ nextTaskId = 2
    /\ \E t \in TaskIds : tasks[t].status = "Paid"
    /\ createTaskError(CLIENT, AGENT, STD, 100, "m1") = "EnforcedPause"

\* C27: whenever MyceliumSDK.createTask is called with options.autoApprove =
\* true, valid arguments and a signer whose balance covers the amount but whose
\* allowance for the escrow does not, the call does not fail because of the
\* insufficient allowance, and its result carries an approvalTransaction.
C27_AutoApprove ==
    \A s \in SdkSigners, t \in {STD, FEE}, m \in SdkAmounts \ {0} :
       (/\ balances[t][s] >= parseAmount(m, TokenDecimals)
        /\ allowances[t][s] < parseAmount(m, TokenDecimals)) =>
          /\ sdkCreateTaskError(s, AGENT, t, m, "m1", TRUE) # AllowanceError
          /\ sdkApprovalTransaction(s, t, m, TRUE) # {}

IdsInUse == {k \in TaskIds : tasks[k] # EmptyTask}

\* The TaskCreated events a step adds to the log.
NewCreations ==
    {e \in BagToSet(events') :
        e.type = "TaskCreated" /\ CopiesIn(e, events') > CopiesIn(e, events)}

\* C29: also when createTask is re-entered during the pull, a creation that
\* succeeds takes an id no earlier creation in the log has and stores its
\* record in a slot that was empty, leaving every other record as it was; no
\* two creations in the log share an id; and outside a running call the ids
\* in use are exactly 0 .. getTaskCount()-1.
C29_ReentrantIdsDistinct ==
    /\ [][\A e \in NewCreations :
            /\ \A o \in CreatedEvents : o.taskId # e.taskId
            /\ tasks[e.taskId] = EmptyTask
            /\ tasks'[e.taskId].client = e.client
            /\ \A k \in TaskIds \ {e.taskId} : tasks'[k] = tasks[k]]_vars
    /\ [](/\ \A e \in CreatedEvents, o \in CreatedEvents :
                e.taskId = o.taskId => e = o /\ CopiesIn(e, events) = 1
          /\ stack = <<>> => IdsInUse = 0 .. (getTaskCount - 1))

\* Outside a running call, two tasks of the untrusted asset whose amounts add
\* up to more than the escrow holds, which only happens when one of them was
\* created inside the pull of the other.
C29_Witness ==
    /\ stack = <<>>
    /\ getTaskCount = 2
    /\ IdsInUse = {0, 1}
    /\ tasks[0].token = EVIL /\ tasks[1].token = EVIL
    /\ outbound = [i \in TaskIds |-> 0]
    /\ balances[EVIL][ESCROW] < tasks[0].amount + tasks[1].amount

\* C30: the failure approvePayment, claimPayment and cancelTaskAndRefund
\* report is decided in a fixed order, whatever else is wrong with the call:
\* while paused it is the paused error; otherwise, on an id that is not below
\* getTaskCount(), the nonexistent-task error; otherwise, for a caller that is
\* not the task's client (agent for claimPayment), the authorization error,
\* also when the status is wrong as well; and only for the right caller the
\* status error. A call that reports a failure cannot take effect.
C30_ErrorOrder ==
    \A s \in Senders, i \in CallIds :
       /\ paused =>
             /\ approvePaymentError(s, i) = "EnforcedPause"
             /\ claimPaymentError(s, i) = "EnforcedPause"
             /\ cancelTaskAndRefundError(s, i) = "EnforcedPause"
       /\ (~paused /\ ~(i < getTaskCount)) =>
             /\ approvePaymentError(s, i) = "TaskEscrow: Task does not exist"
             /\ claimPaymentError(s, i) = "TaskEscrow: Task does not exist"
             /\ cancelTaskAndRefundError(s, i) = "TaskEscrow: Task does not exist"
       /\ (~paused /\ i < getTaskCount) =>
             /\ s # tasks[i].client =>
                   /\ approvePaymentError(s, i) =
                         "TaskEscrow: Only client can approve payment"
                   /\ cancelTaskAndRefundError(s, i) =
                         "TaskEscrow: Only client can cancel task"
             /\ s # tasks[i].agent =>
                   claimPaymentError(s, i) = "TaskEscrow: Only agent can claim payment"
             /\ (s = tasks[i].client /\ tasks[i].status # "Created") =>
                   /\ approvePaymentError(s, i) =
                         "TaskEscrow: Task is not in Created status"
                   /\ cancelTaskAndRefundError(s, i) =
                         "TaskEscrow: Can only cancel tasks in Created status"
             /\ (s = tasks[i].agent /\ tasks[i].status # "Approved") =>
                   claimPaymentError(s, i) = "TaskEscrow: Payment is not approved"
       /\ approvePaymentError(s, i) # "" => ~ENABLED approvePayment(s, i)
       /\ claimPaymentError(s, i) # "" => ~ENABLED claimPayment(s, i)
       /\ cancelTaskAndRefundError(s, i) # "" => ~ENABLED cancelTaskAndRefund(s, i)

\* Not paused, with an Approved and a Created task: approvePayment on the
\* Approved one by someone who is not its client has a wrong caller and a
\* wrong status and reports the caller; claimPayment on the Created one by
\* its client likewise; and on the first unused id the nonexistent-task error
\* comes before the caller's.
C30_Witness ==
    /\ ~paused
    /\ stack = <<>>
    /\ \E a \in TaskIds, c \in TaskIds :
          /\ a < getTaskCount /\ c < getTaskCount
          /\ tasks[a].status = "Approved" /\ tasks[c].status = "Created"
          /\ tasks[a].client # OWNER
          /\ approvePaymentError(OWNER, a) = "TaskEscrow: Only client can approve payment"
          /\ tasks[c].agent # tasks[c].client
          /\ claimPaymentError(tasks[c].client, c) =
                "TaskEscrow: Only agent can claim payment"
          /\ cancelTaskAndRefundError(OWNER, getTaskCount) =
                "TaskEscrow: Task does not exist"

\* A record createTask may have stored.
WellFormed(task, key) ==
    /\ task.id = key
    /\ task.amount > 0
    /\ task.client # ZERO
    /\ task.agent # ZERO
    /\ task.agent # task.client
    /\ task.token # ZERO
    /\ task.metadataHash # ""

\* C31: in every reachable state every stored task (id < getTaskCount()) has
\* amount > 0, an agent that is neither the zero identity nor its client, a
\* token that is not the zero identity, a non-empty metadataHash and an id
\* field equal to its key; and no createTask call whose agent, token or
\* metadata would break this can take effect.
C31_StoredTasksWellFormed ==
    /\ \A k \in TaskIds : k < getTaskCount =>
          /\ WellFormed(tasks[k], k)
          /\ getTaskInfo(k) = {tasks[k]}
    /\ \A s \in Clients, a \in AgentArgs, t \in TokenArgs, m \in Amounts,
          h \in Metadata :
          (a = ZERO \/ a = s \/ t = ZERO \/ h = "") =>
             ~ENABLED createTask(s, a, t, m, h)

\* Two records are stored: one of the fee asset (95 for a request of 100) and
\* one of the untrusted asset, created by the asset itself and cancelled since.
C31_Witness ==
    /\ getTaskCount = 2
    /\ stack = <<>>
    /\ tasks[0].token = FEE /\ tasks[0].amount = 95
    /\ tasks[1].token = EVIL /\ tasks[1].client = EVIL
    /\ tasks[1].status = "Cancelled"

\* C32: emergencyRecoverToken is not gated by the pause flag. While paused,
\* the owner's recovery of an amount the escrow holds goes through and moves
\* that amount out of the escrow; and every step that lowers the escrow's
\* balance of any token while paused is the owner's emergencyRecoverToken of
\* that token.
C32_RecoveryWhilePaused ==
    /\ [](paused =>
            \A t \in RecoverTokens \ {ZERO} : \A m \in RecoverAmounts :
               (/\ stack = <<>>
                /\ recoveries < MaxRecoveries
                /\ balances[t][ESCROW] >= m) =>
                  /\ emergencyRecoverTokenError(OWNER, t, m) = ""
                  /\ ENABLED (/\ emergencyRecoverToken(OWNER, t, m)
                              /\ paused'
                              /\ balances'[t][ESCROW] = balances[t][ESCROW] - m
                              /\ balances'[t][OWNER] > balances[t][OWNER]))
    /\ [][paused =>
            \A t \in Tokens :
               balances'[t][ESCROW] < balances[t][ESCROW] =>
                  \E m \in RecoverAmounts : emergencyRecoverToken(OWNER, t, m)]_vars

\* Paused, with a Created task of the fee asset that the agent cannot claim
\* and the client cannot cancel, and 50 of its 95 tokens recovered by the
\* owner.
C32_Witness ==
    /\ paused
    /\ recoveries = 1
    /\ \E k \in TaskIds :
          /\ k < getTaskCount
          /\ tasks[k].token = FEE /\ tasks[k].status = "Created"
          /\ cancelTaskAndRefundError(tasks[k].client, k) = "EnforcedPause"
          /\ claimPaymentError(tasks[k].agent, k) = "EnforcedPause"
    /\ balances[FEE][ESCROW] = 45
    /\ balances[FEE][OWNER] > InitialSupply - ClientFunds - StrangerFunds

\* What a recipient is credited when the fee asset transfers `amount` to it.
FeeNet(amount) == amount - (amount * FEE_PERCENTAGE) \div 100

\* The effect on the fee asset's ledger of paying task i's stored amount out
\* to `to`: the escrow is debited the amount, `to` is credited the amount less
\* the fee, and nobody else's balance moves.
FeePayout(i, to) ==
    /\ balances'[FEE][ESCROW] = balances[FEE][ESCROW] - tasks[i].amount
    /\ balances'[FEE][to] = balances[FEE][to] + FeeNet(tasks[i].amount)
    /\ balances'[FEE][to] - balances[FEE][to] < tasks[i].amount
    /\ \A h \in Holders \ {ESCROW, to} : balances'[FEE][h] = balances[FEE][h]
    /\ \A t \in Tokens \ {FEE} : balances'[t] = balances[t]

\* C33: with the 5%-fee asset a successful claimPayment or cancelTaskAndRefund
\* debits the escrow by exactly the stored amount and credits the recipient
\* amount - floor(5*amount/100) (91 for a stored 95); the task becomes Paid or
\* Cancelled with its amount unchanged; and with the fee asset held for it, the
\* call does not fail in a state where its checks pass.
C33_FeeOnPayout ==
    /\ [][\A s \in Senders, i \in TaskIds :
            /\ (claimPayment(s, i) /\ tasks[i].token = FEE) =>
                  /\ FeePayout(i, tasks[i].agent)
                  /\ tasks'[i] = [tasks[i] EXCEPT !.status = "Paid"]
            /\ (cancelTaskAndRefund(s, i) /\ tasks[i].token = FEE) =>
                  /\ FeePayout(i, tasks[i].client)
                  /\ tasks'[i] = [tasks[i] EXCEPT !.status = "Cancelled"]]_vars
    /\ [](FeeNet(95) = 91 /\ FeeNet(38) = 37)
    /\ [](\A i \in TaskIds :
            (i < getTaskCount /\ tasks[i].token = FEE /\ ~paused) =>
               /\ tasks[i].status = "Approved" =>
                     /\ claimPaymentResult(tasks[i].agent, i) = ""
                     /\ ENABLED claimPayment(tasks[i].agent, i)
               /\ tasks[i].status = "Created" =>
                     /\ cancelTaskAndRefundResult(tasks[i].client, i) = ""
                     /\ ENABLED cancelTaskAndRefund(tasks[i].client, i))

\* One task of the fee asset was paid and one refunded: the agent holds 91 of
\* the stored 95, the client got back 37 of the stored 38, and the escrow
\* holds nothing of the asset.
C33_Witness ==
    /\ getTaskCount = 2
    /\ \E p \in TaskIds, c \in TaskIds :
          /\ tasks[p].token = FEE /\ tasks[p].status = "Paid" /\ tasks[p].amount = 95
          /\ tasks[c].token = FEE /\ tasks[c].status = "Cancelled"
          /\ tasks[c].amount = 38
    /\ balances[FEE][AGENT] = 91
    /\ balances[FEE][CLIENT] = ClientFunds - 100 - 40 + 37
    /\ balances[FEE][ESCROW] = 0

\* A step leaves every task record but i's, and the escrow's balance of every
\* token but i's.
OnlyTouches(i) ==
    /\ \A j \in TaskIds \ {i} : tasks'[j] = tasks[j]
    /\ \A t \in Tokens \ {tasks[i].token} :
          balances'[t][ESCROW] = balances[t][ESCROW]

\* C34: approvePayment, claimPayment and cancelTaskAndRefund on task i change
\* no other task's record and no balance of the escrow in a token other than
\* task i's; this holds for the call itself and, with the untrusted asset,
\* for the return of the transfer the call made.
C34_OtherTasksUntouched ==
    /\ [][\A s \in Senders, i \in TaskIds :
            (\/ approvePayment(s, i)
             \/ claimPayment(s, i)
             \/ cancelTaskAndRefund(s, i)) => OnlyTouches(i)]_vars
    /\ [][(/\ EvilPushReturns
           /\ Head(stack).fn \in {"claimPayment", "cancelTaskAndRefund"}) =>
             /\ tasks' = tasks
             /\ OnlyTouches(Head(stack).taskId)]_vars

\* Two tasks in different assets: the one of the fee asset was approved and
\* paid, the one of the plain asset is still Created with its 100 tokens in
\* the escrow.
C34_Witness ==
    /\ getTaskCount = 2
    /\ recoveries = 0
    /\ \E i \in TaskIds, j \in TaskIds :
          /\ tasks[i].token = FEE /\ tasks[i].status = "Paid"
          /\ tasks[j].token = STD /\ tasks[j].status = "Created"
          /\ tasks[j].amount = 100
    /\ balances[STD][ESCROW] = 100
    /\ balances[FEE][ESCROW] = 0

\* C35: a successful approvePayment changes the status of the task it names
\* from Created to Approved and nothing else: every other field of the task,
\* every other task, the count, the pause flag, and every balance and
\* allowance of every token (escrow, client, agent and owner included) stay
\* as they were, and one PaymentApproved event for the task is recorded.
C35_ApproveOnlyStatus ==
    [][\A s \in Senders, i \in TaskIds :
         approvePayment(s, i) =>
            /\ tasks[i].status = "Created"
            /\ tasks' = [tasks EXCEPT ![i].status = "Approved"]
            /\ \A t \in Tokens : \A h \in Holders :
                  balances'[t][h] = balances[t][h]
            /\ allowances' = allowances
            /\ nextTaskId' = nextTaskId
            /\ paused' = paused
            /\ events' = events (+) SetToBag({PaymentApproved(i)})]_vars

\* A task of the plain asset has been approved: the escrow still holds its
\* 100 tokens, the agent has none and the client's balance is what the
\* creation left.
C35_Witness ==
    /\ getTaskCount = 1
    /\ tasks[0].status = "Approved"
    /\ tasks[0].token = STD
    /\ tasks[0].amount = 100
    /\ balances[STD][ESCROW] = 100
    /\ balances[STD][AGENT] = 0
    /\ balances[STD][CLIENT] = ClientFunds - 100
    /\ balances[STD][OWNER] = InitialSupply - ClientFunds - StrangerFunds

\* C36: when the escrow's balance of the asset after the pull is lower than
\* it was before the pull, createTask fails on the checked subtraction: the
\* call cannot go on to store a task, its failure restores the count, the
\* tasks and the balances the call was entered with, and every creation that
\* does complete found a higher balance than before and stored the
\* difference, which is at most the balance.
C36_LowerBalanceFails ==
    /\ [](\A d \in EvilDeltas :
            (/\ stack # <<>>
             /\ Head(stack).fn = "createTask"
             /\ d \in EvilPullDeltas(Head(stack).amount)
             /\ balances[EVIL][ESCROW] + d < Head(stack).balanceBefore) =>
               /\ receivedError(Head(stack).balanceBefore,
                                balances[EVIL][ESCROW] + d) = "Panic(0x11)"
               /\ ~ENABLED EvilPullReturns(d)
               /\ ENABLED (/\ EvilPullRejected(d)
                           /\ nextTaskId' = Head(stack).snap.nextTaskId
                           /\ tasks' = Head(stack).snap.tasks
                           /\ balances' = Head(stack).snap.balances
                           /\ events' = Head(stack).snap.events))
    /\ [][\A d \in EvilDeltas :
            EvilPullReturns(d) =>
               /\ balances'[EVIL][ESCROW] > Head(stack).balanceBefore
               /\ tasks'[nextTaskId].amount =
                     balances'[EVIL][ESCROW] - Head(stack).balanceBefore
               /\ tasks'[nextTaskId].amount <= balances'[EVIL][ESCROW]]_vars
    /\ [](\A k \in TaskIds : k < getTaskCount =>
            tasks[k].amount \in 1 .. InitialSupply)

\* A createTask of the untrusted asset is inside its pull with 100 tokens in
\* the escrow when it was entered, none of which are left: the pull, if it
\* returns now without delivering, leaves less than there was.
C36_Witness ==
    /\ stack # <<>>
    /\ Head(stack).fn = "createTask"
    /\ Head(stack).balanceBefore = 100
    /\ balances[EVIL][ESCROW] = 0
    /\ 0 \in EvilPullDeltas(Head(stack).amount)
    /\ ENABLED EvilPullRejected(0)

\* The agent's claim of task i would go through.
Claimable(i) == claimPaymentResult(tasks[i].agent, i) = ""

Approved(i) == i < getTaskCount /\ tasks[i].status = "Approved"

\* C37, as stated: with pauses that do not last forever, no emergency
\* recovery and transfers that succeed, the agent's claimPayment of an
\* Approved task stays enabled until it is taken, whatever other operation
\* runs, so that under weak fairness of the claim every Approved task is
\* eventually Paid.
C37_ApprovedEventuallyPaid ==
    /\ [][\A i \in TaskIds :
            (Approved(i) /\ Claimable(i) /\ ~claimPayment(tasks[i].agent, i)) =>
               Claimable(i)']_vars
    /\ ([]<>~paused) =>
          \A i \in TaskIds : Approved(i) ~> (tasks[i].status = "Paid")

\* C37, amended: with no emergency recovery and transfers that succeed, the
\* agent's claimPayment of an Approved task is enabled whenever the escrow is
\* not paused and no operation other than pause disables it before it is
\* taken; an Approved task stays Approved until it is Paid; so, if from some
\* point on the escrow is no longer paused, under weak fairness of the claim
\* every Approved task is eventually Paid.
C37_ApprovedEventuallyPaidOnceUnpaused ==
    /\ [](\A i \in TaskIds : (Approved(i) /\ ~paused) =>
            /\ Claimable(i)
            /\ ENABLED claimPayment(tasks[i].agent, i))
    /\ [][\A i \in TaskIds :
            (Approved(i) /\ Claimable(i) /\ ~claimPayment(tasks[i].agent, i)) =>
               \/ Claimable(i)'
               \/ pause(OWNER)]_vars
    /\ [][\A i \in TaskIds :
            Approved(i) => (Approved(i)' \/ claimPayment(tasks[i].agent, i))]_vars
    /\ (<>[]~paused) =>
          \A i \in TaskIds : Approved(i) ~> (tasks[i].status = "Paid")

\* Not paused, one task paid to the agent and another one Approved, which the
\* agent can claim.
C37_Witness ==
    /\ ~paused
    /\ getTaskCount = 2
    /\ \E p \in TaskIds, a \in TaskIds :
          /\ tasks[p].status = "Paid" /\ tasks[p].agent = AGENT
          /\ balances[tasks[p].token][AGENT] > 0
          /\ Approved(a) /\ Claimable(a)
          /\ ENABLED claimPayment(AGENT, a)

\* Amounts the owner may ask for: what is tried in the model, and one more
\* than the escrow holds of the token.
OverAmounts(token) == RecoverAmounts \cup {balances[token][ESCROW] + 1}

\* C38: emergencyRecoverToken called by the owner with the zero address as
\* token fails with the zero-address error, and with the plain or fee asset
\* and an amount larger than the escrow's balance of it fails in the asset's
\* transfer; neither call can take effect, and a failing recovery leaves all
\* balances, all tasks, the count and the pause flag as they were.
C38_BadRecoveryFails ==
    /\ [](\A m \in RecoverAmounts :
            /\ emergencyRecoverTokenError(OWNER, ZERO, m) =
                  "TaskEscrow: Token address cannot be zero"
            /\ ~ENABLED emergencyRecoverToken(OWNER, ZERO, m))
    /\ [](\A t \in RecoverTokens \ {ZERO} : \A m \in OverAmounts(t) :
            m > balances[t][ESCROW] =>
               /\ emergencyRecoverTokenError(OWNER, t, m) = "ERC20InsufficientBalance"
               /\ ~ENABLED emergencyRecoverToken(OWNER, t, m))
    /\ [][emergencyRecoverTokenReverts =>
            /\ balances' = balances
            /\ tasks' = tasks
            /\ nextTaskId' = nextTaskId
            /\ paused' = paused]_vars
    /\ [](\A t \in Tokens : \A h \in Holders : balances[t][h] >= 0)

\* No recovery made yet; the escrow holds 95 of the fee asset for a Created
\* task and nothing of the plain asset, whose task was paid: a recovery of 50
\* of the plain asset fails, one of the fee asset would go through.
C38_Witness ==
    /\ recoveries = 0
    /\ stack = <<>>
    /\ balances[STD][ESCROW] = 0
    /\ balances[FEE][ESCROW] = 95
    /\ \E p \in TaskIds : tasks[p].token = STD /\ tasks[p].status = "Paid"
    /\ emergencyRecoverTokenError(OWNER, STD, 50) = "ERC20InsufficientBalance"
    /\ emergencyRecoverTokenError(OWNER, FEE, 50) = ""
    /\ ENABLED emergencyRecoverToken(OWNER, FEE, 50)
    /\ ~ENABLED emergencyRecoverToken(OWNER, STD, 50)

\* C39: once destroy() has been called on an SDK instance, createTask,
\* approvePayment, claimPayment, cancelTask, getTask, getTaskCount,
\* getTaskMetadata, taskExists and approveToken of that instance all throw the
\* SDK-has-been-destroyed error, whatever their arguments, before any call
\* of the contract.
C39_DestroyedStopsEverything ==
    \A this \in SdkInstances :
       _destroyed[this] =>
          /\ \A a \in SdkAgents, t \in SdkTokens, m \in SdkAmounts,
                h \in SdkMetadata, o \in BOOLEAN :
                sdkCreateTaskError(this, a, t, m, h, o) = DestroyedError
          /\ sdkGetTaskCountError(this) = DestroyedError
          /\ \A i \in SdkTaskIds :
                /\ sdkApprovePaymentError(this, i) = DestroyedError
                /\ sdkClaimPaymentError(this, i) = DestroyedError
                /\ sdkCancelTaskError(this, i) = DestroyedError
                /\ sdkGetTaskError(this, i) = DestroyedError
                /\ sdkGetTaskMetadataError(this, i) = DestroyedError
                /\ sdkTaskExistsError(this, i) = DestroyedError
          /\ \A t \in SdkTokens, m \in SdkAmounts :
                approveTokenError(this, t, m) = DestroyedError

\* retryWithBackoff has finished: it returned or it threw.
RetryDone == retry.pc \in {"returned", "thrown"}

\* The delays waited so far are baseDelay, 2*baseDelay, 4*baseDelay, ...
WaitsDouble ==
    \A k \in 1 .. Len(retry.waits) :
        retry.waits[k] = IF k = 1 THEN retry.baseDelay
                                  ELSE 2 * retry.waits[k - 1]

\* C40: retryWithBackoff(fn, maxAttempts, baseDelay) calls fn at most
\* maxAttempts times; it returns the value of the first call that succeeds
\* (every call before it failed) and calls fn no more; after maxAttempts
\* failures in a row it throws the error of the last call; the k-th failure
\* is followed by a wait of baseDelay * 2^(k-1) when k < maxAttempts and by
\* no wait when k = maxAttempts; and a call whose fn settles and whose timers
\* fire always finishes.
C40_RetryWithBackoff ==
    /\ [](/\ retry.calls <= retry.maxAttempts
          /\ retry.pc = "returned" =>
                /\ retry.result \in FnValues
                /\ retry.calls = Len(retry.failures) + 1
          /\ retry.pc = "thrown" /\ retry.maxAttempts >= 1 =>
                /\ retry.calls = retry.maxAttempts
                /\ Len(retry.failures) = retry.maxAttempts
                /\ retry.result = retry.failures[retry.maxAttempts]
          /\ WaitsDouble
          /\ Len(retry.waits) =
                Cardinality({k \in 1 .. Len(retry.failures) :
                                k < retry.maxAttempts})
          /\ retry.pc = "wait" => Len(retry.failures) < retry.maxAttempts)
    /\ [][/\ RetryDone => retry' = retry
          /\ retry'.calls # retry.calls =>
                /\ retry'.calls = retry.calls + 1
                /\ retry.calls = Len(retry.failures)
                /\ retry.pc = "call"]_vars
    /\ (retry.pc # "idle") ~> RetryDone

\* Three attempts one second apart at first: fn failed three times, with two
\* waits of one and two seconds between them and none after the third, and
\* the third error, which differs from the second, was thrown.
C40_Witness ==
    /\ retry.pc = "thrown"
    /\ retry.maxAttempts = 3
    /\ retry.calls = 3
    /\ retry.failures = <<"timeout", "timeout", "reverted">>
    /\ retry.waits = <<1000, 2000>>
    /\ retry.result = "reverted"

====
